---- MODULE Spec2Model ----
(***************************************************************************)
(* ClaudexBar: one invocation of the status-bar script (main), its two     *)
(* credential stores, the HTTP usage adapters, the codex app-server RPC    *)
(* fallback and the payload renderer.                                      *)
(*                                                                         *)
(* Conventions of the model                                                *)
(*  - Time is counted in ticks of MsPerTick milliseconds; every instant    *)
(*    the program reads (Date.now(), expiresAt, reset times) is a whole    *)
(*    number of ticks.                                                     *)
(*  - A JSON value is a record [t, s, n, f]: t is its type ("missing" for  *)
(*    an absent key, "str", "num", "other" for null/boolean/array/object   *)
(*    where a scalar is read); a number is n + f/10; a string that is an   *)
(*    ISO-8601 date carries s = "iso" and the instant it denotes in n.     *)
(*  - A nullable number or string is a record [null, ...].                 *)
(*  - File-system writes and console output do not fail.                   *)
(***************************************************************************)
EXTENDS Integers, Sequences, FiniteSets, TLC

VARIABLES
    argv,          \* Bun.argv.slice(2)
    providerFile,  \* content of ~/.codex/claudexbar/provider
    codexFile,     \* content of ~/.codex/auth.json
    claudeFile,    \* content of ~/.claude/.credentials.json
    now,           \* Date.now(), in ticks
    pc,            \* position of main()
    args,          \* result of parseArgs
    next,          \* provider computed by the --toggle branch
    provider,      \* provider passed to renderClaudex
    auth,          \* credential held in memory (CodexAuth / ClaudeOAuth)
    requests,      \* HTTP requests issued so far
    writes,        \* files written so far
    signals,       \* number of refresh signals sent to the display host
    oauthErr,      \* message of the error caught from the codex primary path
    childPlan,     \* behaviour of the spawned codex app-server
    rpc,           \* state of the codex app-server exchange
    payload,       \* payload returned by renderClaudex
    out,           \* lines printed on stdout
    exitCode,      \* process exit code (-1 while running)
    initial,       \* the credential files and the selector file as the invocation found them
    received,      \* the HTTP responses received: [token, usage]
    call,          \* a pure function of the script applied on its own: arguments, results
    procs          \* concurrent invocations that change the selector, by number

vars == <<argv, call, procs, providerFile, codexFile, claudeFile, now, pc, args, next, provider,
          auth, requests, writes, signals, oauthErr, childPlan, rpc, payload, out,
          exitCode, initial, received>>

----------------------------------------------------------------------------
(* Program constants *)

CLAUDE_PROVIDER == "claude"
CODEX_PROVIDER == "codex"
Providers == {CLAUDE_PROVIDER, CODEX_PROVIDER}

MsPerTick == 1000
CLAUDE_REFRESH_BUFFER_MS == 5 * 60 * 1000
EightDaysMs == 8 * 24 * 60 * 60 * 1000
ClaudeSessionWindowMs == 5 * 60 * 60 * 1000
ClaudeWeeklyWindowMs == 7 * 24 * 60 * 60 * 1000

\* The instant of the invocation, in ticks after an arbitrary origin.
Now0 == 2000000

----------------------------------------------------------------------------
(* JSON values and the accessors of the script *)

Missing == [t |-> "missing", s |-> "", n |-> 0, f |-> 0]
JNull == [t |-> "other", s |-> "", n |-> 0, f |-> 0]
Str(x) == [t |-> "str", s |-> x, n |-> 0, f |-> 0]
Num(k) == [t |-> "num", s |-> "", n |-> k, f |-> 0]
Frac(k, tenths) == [t |-> "num", s |-> "", n |-> k, f |-> tenths]
IsoStr(tick) == [t |-> "str", s |-> "iso", n |-> tick, f |-> 0]

NoNum == [null |-> TRUE, n |-> 0, f |-> 0]
SomeNum(k, tenths) == [null |-> FALSE, n |-> k, f |-> tenths]
NoStr == [null |-> TRUE, s |-> ""]
SomeStr(x) == [null |-> FALSE, s |-> x]

\* Number(string) for the strings of the model: blank strings convert to 0,
\* decimal digit strings to their value, everything else to NaN.
NumberOfString(x) ==
    CASE x = "" -> SomeNum(0, 0)
      [] x = " " -> SomeNum(0, 0)
      [] x = "42" -> SomeNum(42, 0)
      [] OTHER -> NoNum

toNumber(value) ==
    IF value.t = "num" THEN SomeNum(value.n, value.f)
    ELSE IF value.t = "str" THEN NumberOfString(value.s)
    ELSE NoNum

\* value.trim().length > 0
IsBlank(x) == x = "" \/ x = " "

toStringValue(value) ==
    IF value.t = "str" /\ ~IsBlank(value.s) THEN SomeStr(value.s) ELSE NoStr

\* toStringValue keeps the JSON value itself where the script goes on to
\* parse the string as a date.
toStringJson(value) ==
    IF value.t = "str" /\ ~IsBlank(value.s) THEN value ELSE Missing

\* Math.round of n + f/10 (halves round up).
MathRound(x) == IF x.f >= 5 THEN x.n + 1 ELSE x.n

Max(a, b) == IF a >= b THEN a ELSE b
Min(a, b) == IF a <= b THEN a ELSE b

\* The value passed through unchanged.
clamp_Identity(value, lo, hi) == value

clamp(value, lo, hi) == Max(lo, Min(hi, value))

\* Substring test on strings.
Contains(hay, needle) ==
    \E i \in 1..(Len(hay) - Len(needle) + 1) :
        SubSeq(hay, i, i + Len(needle) - 1) = needle

----------------------------------------------------------------------------
(* String helpers standing for String.prototype.trim / trimStart / padStart *)

IsSpace(c) == c = " " \/ c = "\n" \/ c = "\t"

RECURSIVE TrimStart(_)
TrimStart(x) ==
    IF Len(x) = 0 THEN x
    ELSE IF IsSpace(SubSeq(x, 1, 1)) THEN TrimStart(SubSeq(x, 2, Len(x)))
    ELSE x

RECURSIVE TrimEnd(_)
TrimEnd(x) ==
    IF Len(x) = 0 THEN x
    ELSE IF IsSpace(SubSeq(x, Len(x), Len(x))) THEN TrimEnd(SubSeq(x, 1, Len(x) - 1))
    ELSE x

Trim(x) == TrimEnd(TrimStart(x))

\* String(n).padStart(2, "0") for n >= 0
PadStart2(n) == IF n < 10 THEN "0" \o ToString(n) ELSE ToString(n)

\* Math.round(a / b) for b > 0: floor(a/b + 1/2)
RoundDiv(a, b) == (2 * a + b) \div (2 * b)

----------------------------------------------------------------------------
(* Argument parsing and the provider selector *)

\* The loop stepping over whatever follows --provider.
RECURSIVE parseArgsFrom_SkipsValue(_, _, _, _)
parseArgsFrom_SkipsValue(av, idx, prov, toggleProvider) ==
    IF idx > Len(av) THEN [provider |-> prov, toggleProvider |-> toggleProvider]
    ELSE IF av[idx] = "--toggle" THEN parseArgsFrom_SkipsValue(av, idx + 1, prov, TRUE)
    ELSE IF av[idx] = "--provider"
         THEN parseArgsFrom_SkipsValue(av, idx + 2,
                  IF idx + 1 <= Len(av) /\ av[idx + 1] \in {"claude", "codex"}
                  THEN [null |-> FALSE, s |-> av[idx + 1]] ELSE prov,
                  toggleProvider)
    ELSE parseArgsFrom_SkipsValue(av, idx + 1, prov, toggleProvider)

RECURSIVE parseArgsFrom(_, _, _, _)
parseArgsFrom(av, idx, prov, toggleProvider) ==
    IF idx > Len(av) THEN [provider |-> prov, toggleProvider |-> toggleProvider]
    ELSE IF av[idx] = "--toggle" THEN parseArgsFrom(av, idx + 1, prov, TRUE)
    ELSE IF av[idx] = "--provider"
              /\ idx + 1 <= Len(av) /\ av[idx + 1] \in Providers
         THEN parseArgsFrom(av, idx + 2, SomeStr(av[idx + 1]), toggleProvider)
    ELSE parseArgsFrom(av, idx + 1, prov, toggleProvider)

parseArgs(av) == parseArgsFrom(av, 1, NoStr, FALSE)

\* A file is [exists, text].
NoFile == [exists |-> FALSE, text |-> ""]
FileOf(text) == [exists |-> TRUE, text |-> text]

readProvider(file) ==
    IF file.exists /\ Trim(file.text) \in Providers THEN Trim(file.text)
    ELSE CODEX_PROVIDER

writeProvider(prov) == FileOf(prov \o "\n")

\* The toggle that always selects claude.
nextProvider_AlwaysClaude(prov) == CLAUDE_PROVIDER

nextProvider(prov) == IF prov = CODEX_PROVIDER THEN CLAUDE_PROVIDER ELSE CODEX_PROVIDER

----------------------------------------------------------------------------
(* Payload renderer: classes, badge, countdown, pacing *)

\* A payload class is a string, an array of strings, or undefined.
ClassStr(x) == [form |-> "string", items |-> <<x>>]
ClassArr(xs) == [form |-> "array", items |-> xs]
ClassUndef == [form |-> "undefined", items |-> <<>>]

InSeq(x, xs) == \E i \in 1..Len(xs) : xs[i] = x

\* mergeClasses over string arguments that hold at most one class name each
\* (every call site passes single names or the empty string).
RECURSIVE mergeInto(_, _, _)
mergeInto(values, idx, merged) ==
    IF idx > Len(values) THEN merged
    ELSE IF Trim(values[idx]) = "" \/ InSeq(Trim(values[idx]), merged)
         THEN mergeInto(values, idx + 1, merged)
    ELSE mergeInto(values, idx + 1, Append(merged, Trim(values[idx])))

mergeClasses(values) ==
    IF Len(mergeInto(values, 1, <<>>)) > 0
    THEN ClassArr(mergeInto(values, 1, <<>>))
    ELSE ClassUndef

Arrows == {"↑", "↗", "→", "↘", "↓"}

addProviderBadge(text, badge) ==
    IF Trim(text) = "" THEN badge
    ELSE IF SubSeq(Trim(text), 1, 1) \in Arrows
         THEN Trim(badge \o " " \o SubSeq(Trim(text), 1, 1) \o " "
                     \o TrimStart(SubSeq(Trim(text), 2, Len(Trim(text)))))
    ELSE badge \o " " \o Trim(text)

\* resetAt is a nullable number of epoch seconds; t is Date.now() in ticks.
TicksPerSecond == 1000 \div MsPerTick
TicksPerMinute == 60000 \div MsPerTick

\* The day form only above 24 hours.
formatCountdown_StrictDay(resetAtEpochSeconds, t) ==
    IF resetAtEpochSeconds.null THEN "n/a"
    ELSE LET ticks == resetAtEpochSeconds.n * TicksPerSecond - t
             totalMinutes == ticks \div TicksPerMinute
             days == totalMinutes \div (24 * 60)
             hours == (totalMinutes % (24 * 60)) \div 60
             minutes == totalMinutes % 60
         IN IF ticks <= 0 THEN "now"
            ELSE IF totalMinutes > 24 * 60 THEN ToString(days) \o "d" \o ToString(hours) \o "h"
            ELSE ToString(totalMinutes \div 60) \o "h" \o PadStart2(minutes) \o "m"

formatCountdown(resetAtEpochSeconds, t) ==
    IF resetAtEpochSeconds.null THEN "n/a"
    ELSE LET ticks == resetAtEpochSeconds.n * TicksPerSecond - t
             totalMinutes == ticks \div TicksPerMinute
             days == totalMinutes \div (24 * 60)
             hours == (totalMinutes % (24 * 60)) \div 60
             minutes == totalMinutes % 60
         IN IF ticks <= 0 THEN "now"
            ELSE IF days > 0 THEN ToString(days) \o "d" \o ToString(hours) \o "h"
            ELSE ToString(hours) \o "h" \o PadStart2(minutes) \o "m"

Pacing(icon, status, devPct, timeElapsedPct) ==
    [icon |-> icon, status |-> status, devPct |-> devPct, timeElapsedPct |-> timeElapsedPct]

\* The pairs (usage%, elapsed%), usage up to 102, for which the deviation
\* 100 * |usage - elapsed| / elapsed is a whole number and a half but the
\* double the script holds, (usage / elapsed - 1) * 100 or
\* (1 - usage / elapsed) * 100, is just below it (43 / 40 is stored as
\* 1.075 - 2^-52 and gives 7.499999999999996): Math.round then returns the
\* lower whole number.  Every other pair rounds as the exact value does.
HalfLost ==
    { <<17, 40>>, <<27, 40>>, <<31, 40>>, <<37, 40>>, <<43, 40>>, <<51, 40>>, <<53, 40>>,
      <<61, 40>>, <<63, 40>>, <<71, 40>>, <<81, 40>>, <<87, 40>>, <<91, 40>>, <<97, 40>>,
      <<34, 80>>, <<54, 80>>, <<62, 80>>, <<74, 80>>, <<86, 80>>, <<102, 80>> }

\* Math.round((pacing - 1) * 100) and Math.round((1 - pacing) * 100) with
\* pacing = u / e in double precision; d is u - e or e - u.
RoundedDelta(u, e, d) ==
    IF <<u, e>> \in HalfLost THEN RoundDiv(100 * d, e) - 1 ELSE RoundDiv(100 * d, e)

\* The first threshold taken as "1.10 or more".
PacingOf_InclusiveStrong(usagePct, elapsedPct) ==
    LET u == IF elapsedPct > 0 THEN usagePct ELSE 0
        e == IF elapsedPct > 0 THEN elapsedPct ELSE 1
        ahead == RoundedDelta(u, e, u - e)
        under == RoundedDelta(u, e, e - u)
    IN IF 100 * u >= 110 * e
           THEN Pacing("↑", ToString(ahead) \o "% ahead", ahead, elapsedPct)
       ELSE IF 100 * u > 105 * e
           THEN Pacing("↗", ToString(ahead) \o "% ahead", ahead, elapsedPct)
       ELSE IF 100 * u < 90 * e
           THEN Pacing("↓", ToString(under) \o "% under", 0 - under, elapsedPct)
       ELSE IF 100 * u < 95 * e
           THEN Pacing("↘", ToString(under) \o "% under", 0 - under, elapsedPct)
       ELSE Pacing("→", "on track", 0, elapsedPct)

\* calcPacing from the elapsed percentage on.  The quotient
\* usagePct / elapsedPct is compared exactly: pacing > 1.10 iff 100 u > 110 e.
\* (The script divides doubles; for integers up to 100 the correctly rounded
\* quotient lies on the same side of each threshold literal, and equals it
\* when the exact quotient does.)  The deviation is rounded as the double is.
PacingOf(usagePct, elapsedPct) ==
    LET u == IF elapsedPct > 0 THEN usagePct ELSE 0
        e == IF elapsedPct > 0 THEN elapsedPct ELSE 1
        ahead == RoundedDelta(u, e, u - e)
        under == RoundedDelta(u, e, e - u)
    IN IF 100 * u > 110 * e
           THEN Pacing("↑", ToString(ahead) \o "% ahead", ahead, elapsedPct)
       ELSE IF 100 * u > 105 * e
           THEN Pacing("↗", ToString(ahead) \o "% ahead", ahead, elapsedPct)
       ELSE IF 100 * u < 90 * e
           THEN Pacing("↓", ToString(under) \o "% under", 0 - under, elapsedPct)
       ELSE IF 100 * u < 95 * e
           THEN Pacing("↘", ToString(under) \o "% under", 0 - under, elapsedPct)
       ELSE Pacing("→", "on track", 0, elapsedPct)

\* The elapsed share cut to a whole percentage instead of rounded.
ElapsedPct_Truncated(resetAtEpochSeconds, windowTicks, t) ==
    LET startAt == resetAtEpochSeconds.n * TicksPerSecond - windowTicks.n
    IN clamp(((t - startAt) * 100) \div windowTicks.n, 0, 100)

\* The elapsed share of the window, in percent.
ElapsedPct(resetAtEpochSeconds, windowTicks, t) ==
    LET startAt == resetAtEpochSeconds.n * TicksPerSecond - windowTicks.n
    IN clamp(RoundDiv((t - startAt) * 100, windowTicks.n), 0, 100)

\* The unknown case reported as on track.
calcPacing_UnknownOnTrack(usagePct, resetAtEpochSeconds, windowTicks, t) ==
    IF resetAtEpochSeconds.null \/ windowTicks.null \/ windowTicks.n <= 0
    THEN Pacing("→", "on track", 0, 0)
    ELSE PacingOf(usagePct, ElapsedPct(resetAtEpochSeconds, windowTicks, t))

\* windowTicks is a nullable window length in ticks.
calcPacing(usagePct, resetAtEpochSeconds, windowTicks, t) ==
    IF resetAtEpochSeconds.null \/ windowTicks.null \/ windowTicks.n <= 0
    THEN Pacing("→", "unknown pace", 0, 0)
    ELSE PacingOf(usagePct, ElapsedPct(resetAtEpochSeconds, windowTicks, t))

deriveCssClass(weeklyPct, weeklyPacing) ==
    LET elapsed == IF weeklyPacing.timeElapsedPct > 0 THEN weeklyPacing.timeElapsedPct ELSE 1
    IN IF 100 * weeklyPct > 110 * elapsed \/ weeklyPct >= 90 THEN "critical"
       ELSE IF 100 * weeklyPct > 105 * elapsed \/ weeklyPct >= 75 THEN "warning"
       ELSE IF 100 * weeklyPct < 95 * elapsed /\ 100 * weeklyPct >= 90 * elapsed THEN "easy"
       ELSE ""

\* errorPayload without its class.
errorPayload_NoClass(message) ==
    [text |-> "⚠ cdx",
     tooltip |-> "ClaudexBar\n-----------\n" \o message,
     class |-> ClassUndef,
     percentage |-> NoNum]

\* A payload is [text, tooltip, class, percentage]; percentage is nullable.
errorPayload(message) ==
    [text |-> "⚠ cdx",
     tooltip |-> "ClaudexBar\n-----------\n" \o message,
     class |-> ClassStr("error"),
     percentage |-> NoNum]

NoPayload == [text |-> "", tooltip |-> "", class |-> ClassUndef, percentage |-> NoNum]

----------------------------------------------------------------------------
(* Credential stores.  A credential file is [kind, ...]: "absent" (readFile *)
(* throws), "badjson" (JSON.parse throws), "notrecord" (valid JSON that is  *)
(* not an object) or "record" with the keys the script reads and one key    *)
(* it does not know at each level (auth_mode / id_token, extra / scopes).   *)

Ticks(ms) == ms \div MsPerTick

Ok(value) == [ok |-> TRUE, message |-> "", value |-> value]
Fail(message, dummy) == [ok |-> FALSE, message |-> message, value |-> dummy]

CodexTokens(present, at, rt, acct, idt) ==
    [present |-> present, access_token |-> at, refresh_token |-> rt,
     account_id |-> acct, id_token |-> idt]

CodexRecord(apiKey, tokens, lastRefresh, authMode) ==
    [kind |-> "record", OPENAI_API_KEY |-> apiKey, tokens |-> tokens,
     last_refresh |-> lastRefresh, auth_mode |-> authMode]

NoCodexTokens == CodexTokens(FALSE, Missing, Missing, Missing, Missing)

CodexNonRecord(kind) ==
    [kind |-> kind, OPENAI_API_KEY |-> Missing, tokens |-> NoCodexTokens,
     last_refresh |-> Missing, auth_mode |-> Missing]

NoCodexAuth ==
    [raw |-> CodexNonRecord("absent"), mode |-> "none", accessToken |-> "",
     refreshToken |-> NoStr, accountId |-> NoStr, lastRefresh |-> NoNum]

parseIsoDate(value) ==
    IF value.t = "str" /\ value.s = "iso" THEN SomeNum(value.n, 0) ELSE NoNum

\* The threshold taken as "8 days or more".
needsRefresh_Inclusive(lastRefresh, t) ==
    IF lastRefresh.null THEN TRUE
    ELSE t - lastRefresh.n >= Ticks(EightDaysMs)

needsRefresh(lastRefresh, t) ==
    IF lastRefresh.null THEN TRUE
    ELSE t - lastRefresh.n > Ticks(EightDaysMs)

loadCodexAuth(file) ==
    IF file.kind = "absent" THEN Fail("Missing ~/.codex/auth.json. Run: codex login", NoCodexAuth)
    ELSE IF file.kind = "badjson" THEN Fail("Invalid ~/.codex/auth.json JSON", NoCodexAuth)
    ELSE IF file.kind = "notrecord" THEN Fail("Unexpected ~/.codex/auth.json shape", NoCodexAuth)
    ELSE IF ~toStringValue(file.OPENAI_API_KEY).null
        THEN Ok([raw |-> file, mode |-> "apikey",
                 accessToken |-> toStringValue(file.OPENAI_API_KEY).s,
                 refreshToken |-> NoStr, accountId |-> NoStr, lastRefresh |-> NoNum])
    ELSE IF ~file.tokens.present THEN Fail("No tokens found in ~/.codex/auth.json", NoCodexAuth)
    ELSE IF toStringValue(file.tokens.access_token).null
        THEN Fail("Missing Codex access token. Run: codex login", NoCodexAuth)
    ELSE Ok([raw |-> file, mode |-> "oauth",
             accessToken |-> toStringValue(file.tokens.access_token).s,
             refreshToken |-> toStringValue(file.tokens.refresh_token),
             accountId |-> toStringValue(file.tokens.account_id),
             lastRefresh |-> parseIsoDate(toStringJson(file.last_refresh))])

\* A file rebuilt from the keys the script knows.
saveCodexAuth_KnownKeysOnly(raw) ==
    CodexRecord(raw.OPENAI_API_KEY,
                CodexTokens(raw.tokens.present, raw.tokens.access_token,
                            raw.tokens.refresh_token, raw.tokens.account_id, Missing),
                raw.last_refresh, Missing)

\* saveCodexAuth: JSON.stringify(raw, null, 2) written over the file; the file
\* then parses back to a record with the keys and values of raw.
saveCodexAuth(raw) ==
    CodexRecord(raw.OPENAI_API_KEY,
                CodexTokens(raw.tokens.present, raw.tokens.access_token,
                            raw.tokens.refresh_token, raw.tokens.account_id,
                            raw.tokens.id_token),
                raw.last_refresh, raw.auth_mode)

\* maybeRefreshCodexToken up to its first await: is a refresh request sent?
codexSendsRefresh(a, t) ==
    /\ a.mode = "oauth"
    /\ ~a.refreshToken.null
    /\ needsRefresh(a.lastRefresh, t)

\* A token-endpoint response: net = "throw" when fetch itself rejects.
TokenResponse(net, status, kind, at, rt, expiresIn) ==
    [net |-> net, status |-> status, kind |-> kind,
     access_token |-> at, refresh_token |-> rt, expires_in |-> expiresIn]

ResponseOk(response) == response.status >= 200 /\ response.status <= 299

NetErrorMessage == "fetch failed"
JsonErrorMessage == "Failed to parse JSON"

\* maybeRefreshCodexToken leaving the credential and the file as they are.
Unrefreshed(a) == [auth |-> a, wrote |-> FALSE, file |-> a.raw]

\* The merged tokens saved, the loaded credential returned.
codexRefreshApplied_ReturnsLoaded(a, response, t) ==
    LET accessToken == IF toStringValue(response.access_token).null THEN a.accessToken
                       ELSE toStringValue(response.access_token).s
        refreshToken == IF toStringValue(response.refresh_token).null THEN a.refreshToken
                        ELSE toStringValue(response.refresh_token)
        raw == [a.raw EXCEPT !.tokens.access_token = Str(accessToken),
                             !.tokens.refresh_token = Str(refreshToken.s),
                             !.last_refresh = IsoStr(t)]
    IN IF response.kind # "record" THEN Ok(Unrefreshed(a))
       ELSE IF ~a.raw.tokens.present THEN Ok(Unrefreshed(a))
       ELSE Ok([auth |-> a, wrote |-> TRUE, file |-> saveCodexAuth(raw)])

\* maybeRefreshCodexToken from the parsed body of a success answer on: merge
\* the tokens into raw, stamp last_refresh, save.
codexRefreshApplied(a, response, t) ==
    LET accessToken == IF toStringValue(response.access_token).null THEN a.accessToken
                       ELSE toStringValue(response.access_token).s
        refreshToken == IF toStringValue(response.refresh_token).null THEN a.refreshToken
                        ELSE toStringValue(response.refresh_token)
        raw == [a.raw EXCEPT !.tokens.access_token = Str(accessToken),
                             !.tokens.refresh_token = Str(refreshToken.s),
                             !.last_refresh = IsoStr(t)]
    IN IF response.kind # "record" THEN Ok(Unrefreshed(a))
       ELSE IF ~a.raw.tokens.present THEN Ok(Unrefreshed(a))
       ELSE Ok([auth |-> [a EXCEPT !.raw = raw, !.accessToken = accessToken,
                                   !.refreshToken = refreshToken,
                                   !.lastRefresh = SomeNum(t, 0)],
                wrote |-> TRUE, file |-> saveCodexAuth(raw)])

\* A rejected refresh treated as an error, as the claude store does.
codexRefreshed_ThrowsOnReject(a, response, t) ==
    IF response.net = "throw" THEN Fail(NetErrorMessage, Unrefreshed(a))
    ELSE IF ~ResponseOk(response)
        THEN Fail("Codex token refresh failed: " \o ToString(response.status), Unrefreshed(a))
    ELSE IF response.kind = "notjson" THEN Fail(JsonErrorMessage, Unrefreshed(a))
    ELSE codexRefreshApplied(a, response, t)

\* The answer's status not looked at.
codexRefreshed_NoOkCheck(a, response, t) ==
    IF response.net = "throw" THEN Fail(NetErrorMessage, Unrefreshed(a))
    ELSE IF response.kind = "notjson" THEN Fail(JsonErrorMessage, Unrefreshed(a))
    ELSE codexRefreshApplied(a, response, t)

\* maybeRefreshCodexToken after the token endpoint answered.  The result is
\* [ok, message, value |-> [auth, wrote, file]]: ok = FALSE when it throws.
codexRefreshed(a, response, t) ==
    IF response.net = "throw" THEN Fail(NetErrorMessage, Unrefreshed(a))
    ELSE IF ~ResponseOk(response) THEN Ok(Unrefreshed(a))
    ELSE IF response.kind = "notjson" THEN Fail(JsonErrorMessage, Unrefreshed(a))
    ELSE codexRefreshApplied(a, response, t)

ClaudeOauthRec(present, at, rt, expiresAt, scopes) ==
    [present |-> present, accessToken |-> at, refreshToken |-> rt,
     expiresAt |-> expiresAt, scopes |-> scopes]

ClaudeRecord(oauth, extra) ==
    [kind |-> "record", claudeAiOauth |-> oauth, extra |-> extra]

NoClaudeOauth == ClaudeOauthRec(FALSE, Missing, Missing, Missing, Missing)

ClaudeNonRecord(kind) == [kind |-> kind, claudeAiOauth |-> NoClaudeOauth, extra |-> Missing]

NoClaudeAuth ==
    [raw |-> ClaudeNonRecord("absent"), accessToken |-> "", refreshToken |-> NoStr,
     expiresAtMs |-> NoNum]

\* The access token not checked.
loadClaudeOAuth_NoTokenCheck(file) ==
    IF file.kind = "absent" THEN Fail("Missing ~/.claude/.credentials.json. Run: claude", NoClaudeAuth)
    ELSE IF file.kind = "badjson" THEN Fail("Invalid ~/.claude/.credentials.json JSON", NoClaudeAuth)
    ELSE IF file.kind = "notrecord" THEN Fail("Unexpected ~/.claude/.credentials.json shape", NoClaudeAuth)
    ELSE Ok([raw |-> file,
             accessToken |-> toStringValue(file.claudeAiOauth.accessToken).s,
             refreshToken |-> toStringValue(file.claudeAiOauth.refreshToken),
             expiresAtMs |-> toNumber(file.claudeAiOauth.expiresAt)])

loadClaudeOAuth(file) ==
    IF file.kind = "absent" THEN Fail("Missing ~/.claude/.credentials.json. Run: claude", NoClaudeAuth)
    ELSE IF file.kind = "badjson" THEN Fail("Invalid ~/.claude/.credentials.json JSON", NoClaudeAuth)
    ELSE IF file.kind = "notrecord" THEN Fail("Unexpected ~/.claude/.credentials.json shape", NoClaudeAuth)
    ELSE IF ~file.claudeAiOauth.present
        THEN Fail("Missing claudeAiOauth in credentials. Run: claude", NoClaudeAuth)
    ELSE IF toStringValue(file.claudeAiOauth.accessToken).null
        THEN Fail("Missing Claude access token. Run: claude", NoClaudeAuth)
    ELSE Ok([raw |-> file,
             accessToken |-> toStringValue(file.claudeAiOauth.accessToken).s,
             refreshToken |-> toStringValue(file.claudeAiOauth.refreshToken),
             expiresAtMs |-> toNumber(file.claudeAiOauth.expiresAt)])

\* saveClaudeOAuth: JSON.stringify(raw, null, 2) written over the file.
saveClaudeOAuth(raw) ==
    ClaudeRecord(ClaudeOauthRec(raw.claudeAiOauth.present, raw.claudeAiOauth.accessToken,
                                raw.claudeAiOauth.refreshToken, raw.claudeAiOauth.expiresAt,
                                raw.claudeAiOauth.scopes),
                 raw.extra)

\* maybeRefreshClaudeToken up to its first await (expiresAtMs is in ticks).
claudeSendsRefresh(a, t) ==
    /\ ~a.refreshToken.null
    /\ ~a.expiresAtMs.null
    /\ a.expiresAtMs.n < t + Ticks(CLAUDE_REFRESH_BUFFER_MS)

\* maybeRefreshClaudeToken after the token endpoint answered.
claudeRefreshed(a, response, t) ==
    LET accessToken == toStringValue(response.access_token)
        refreshToken == IF toStringValue(response.refresh_token).null THEN a.refreshToken
                        ELSE toStringValue(response.refresh_token)
        expiresIn == toNumber(response.expires_in)
        expiresAt == t + expiresIn.n * TicksPerSecond
        raw == [a.raw EXCEPT !.claudeAiOauth.accessToken = Str(accessToken.s),
                             !.claudeAiOauth.refreshToken = Str(refreshToken.s),
                             !.claudeAiOauth.expiresAt = Num(expiresAt)]
        same == [auth |-> a, wrote |-> FALSE, file |-> a.raw]
    IN IF response.net = "throw" THEN Fail(NetErrorMessage, same)
       ELSE IF ~ResponseOk(response)
           THEN Fail("Claude token refresh failed: " \o ToString(response.status), same)
       ELSE IF response.kind = "notjson" THEN Fail(JsonErrorMessage, same)
       ELSE IF response.kind # "record" THEN Fail("Invalid Claude token refresh payload", same)
       ELSE IF accessToken.null \/ expiresIn.null
           THEN Fail("Incomplete Claude refresh response", same)
       ELSE Ok([auth |-> [a EXCEPT !.raw = raw, !.accessToken = accessToken.s,
                                   !.refreshToken = refreshToken,
                                   !.expiresAtMs = toNumber(Num(expiresAt))],
                wrote |-> TRUE, file |-> saveClaudeOAuth(raw)])

----------------------------------------------------------------------------
(* Usage adapters: response bodies, parsing, payloads *)

\* A usage response is [net, status, body]; body.kind is "notjson" when
\* response.json() throws, "notrecord" for JSON that is not an object.
UsageResponse(net, status, body) == [net |-> net, status |-> status, body |-> body]

CodexWindow(present, usedPercent, resetAt, limitWindowSeconds) ==
    [present |-> present, used_percent |-> usedPercent, reset_at |-> resetAt,
     limit_window_seconds |-> limitWindowSeconds]

NoCodexWindow == CodexWindow(FALSE, Missing, Missing, Missing)

CodexBody(kind, rateLimitPresent, primary, secondary, balance, planType) ==
    [kind |-> kind,
     rate_limit |-> [present |-> rateLimitPresent, primary_window |-> primary,
                     secondary_window |-> secondary],
     credits |-> [present |-> balance.t # "missing", balance |-> balance],
     plan_type |-> planType]

CodexNonRecordBody(kind) == CodexBody(kind, FALSE, NoCodexWindow, NoCodexWindow, Missing, Missing)

NoUsage ==
    [sessionPct |-> 0, weeklyPct |-> 0, sessionResetAt |-> NoNum, weeklyResetAt |-> NoNum,
     sessionWindowMinutes |-> NoNum, weeklyWindowMinutes |-> NoNum, credits |-> NoNum,
     source |-> "none", planType |-> NoStr]

\* toNumber(window?.field): null when the window itself is absent.
WindowNumber(present, value) == IF present THEN toNumber(value) ELSE NoNum

RoundedOrNull(x) == IF x.null THEN NoNum ELSE SomeNum(MathRound(x), 0)

\* Math.max(1, Math.round(seconds / 60)) for whole seconds.
WindowMinutes(x) == IF x.null THEN NoNum ELSE SomeNum(Max(1, RoundDiv(x.n, 60)), 0)

\* The snapshot parseCodexOAuthUsage returns for two known percentages.
CodexOAuthSnapshot(raw, sessionPct, weeklyPct) ==
    LET rateLimit == raw.rate_limit
        primary == rateLimit.primary_window
        secondary == rateLimit.secondary_window
        hasPrimary == rateLimit.present /\ primary.present
        hasSecondary == rateLimit.present /\ secondary.present
        sessionResetAt == WindowNumber(hasPrimary, primary.reset_at)
        weeklyResetAt == WindowNumber(hasSecondary, secondary.reset_at)
        sessionWindowSeconds == WindowNumber(hasPrimary, primary.limit_window_seconds)
        weeklyWindowSeconds == WindowNumber(hasSecondary, secondary.limit_window_seconds)
    IN [sessionPct |-> clamp(MathRound(sessionPct), 0, 100),
        weeklyPct |-> clamp(MathRound(weeklyPct), 0, 100),
        sessionResetAt |-> RoundedOrNull(sessionResetAt),
        weeklyResetAt |-> RoundedOrNull(weeklyResetAt),
        sessionWindowMinutes |-> WindowMinutes(sessionWindowSeconds),
        weeklyWindowMinutes |-> WindowMinutes(weeklyWindowSeconds),
        credits |-> WindowNumber(raw.credits.present, raw.credits.balance),
        source |-> "oauth",
        planType |-> toStringValue(raw.plan_type)]

SessionUsedPercent(raw) ==
    WindowNumber(raw.rate_limit.present /\ raw.rate_limit.primary_window.present,
                 raw.rate_limit.primary_window.used_percent)

WeeklyUsedPercent(raw) ==
    WindowNumber(raw.rate_limit.present /\ raw.rate_limit.secondary_window.present,
                 raw.rate_limit.secondary_window.used_percent)

OrZero(x) == IF x.null THEN SomeNum(0, 0) ELSE x

\* A missing percentage read as 0.
parseCodexOAuthUsage_DefaultZero(raw) ==
    IF raw.kind # "record" THEN Fail("Codex OAuth response is not an object", NoUsage)
    ELSE Ok(CodexOAuthSnapshot(raw, OrZero(SessionUsedPercent(raw)),
                               OrZero(WeeklyUsedPercent(raw))))

parseCodexOAuthUsage(raw) ==
    IF raw.kind # "record" THEN Fail("Codex OAuth response is not an object", NoUsage)
    ELSE IF SessionUsedPercent(raw).null \/ WeeklyUsedPercent(raw).null
        THEN Fail("OAuth payload missing rate-limit windows", NoUsage)
    ELSE Ok(CodexOAuthSnapshot(raw, SessionUsedPercent(raw), WeeklyUsedPercent(raw)))

\* fetchCodexUsageViaOAuth after the usage endpoint answered.
codexUsageFetched(response) ==
    IF response.net = "throw" THEN Fail(NetErrorMessage, NoUsage)
    ELSE IF ~ResponseOk(response)
        THEN Fail("OAuth API " \o ToString(response.status), NoUsage)
    ELSE IF response.body.kind = "notjson" THEN Fail(JsonErrorMessage, NoUsage)
    ELSE parseCodexOAuthUsage(response.body)

MinutesToTicks(x) == IF x.null THEN NoNum ELSE SomeNum(x.n * TicksPerMinute, 0)

UsageText(pacing, weeklyPct, countdown) ==
    pacing.icon \o " ◉" \o ToString(weeklyPct) \o "% ⧖"
        \o ToString(pacing.timeElapsedPct) \o "% " \o countdown

UsageTooltip(providerLine, sessionPct, sessionPacing, sessionCountdown, weeklyPct, weeklyPacing, weeklyCountdown) ==
    "ClaudexBar\n-----------\n" \o providerLine \o "\n\n"
        \o "Session: " \o ToString(sessionPct) \o "% (" \o sessionPacing.status \o ")\n"
        \o "  Resets in " \o sessionCountdown \o "\n\n"
        \o "Weekly: " \o ToString(weeklyPct) \o "% (" \o weeklyPacing.status \o ")\n"
        \o "  Resets in " \o weeklyCountdown

codexUsageToPayload(usage, t) ==
    LET sessionCountdown == formatCountdown(usage.sessionResetAt, t)
        weeklyCountdown == formatCountdown(usage.weeklyResetAt, t)
        sessionPacing == calcPacing(usage.sessionPct, usage.sessionResetAt,
                                    MinutesToTicks(usage.sessionWindowMinutes), t)
        weeklyPacing == calcPacing(usage.weeklyPct, usage.weeklyResetAt,
                                   MinutesToTicks(usage.weeklyWindowMinutes), t)
        cssClass == deriveCssClass(usage.weeklyPct, weeklyPacing)
    IN [text |-> addProviderBadge(UsageText(weeklyPacing, usage.weeklyPct, weeklyCountdown), "O"),
        tooltip |-> UsageTooltip("Provider: Codex (" \o usage.source \o ")",
                                 usage.sessionPct, sessionPacing, sessionCountdown,
                                 usage.weeklyPct, weeklyPacing, weeklyCountdown),
        class |-> mergeClasses(<<cssClass, "provider-codex">>),
        percentage |-> SomeNum(usage.sessionPct, 0)]

ClaudeWindow(present, utilization, resetsAt) ==
    [present |-> present, utilization |-> utilization, resets_at |-> resetsAt]

NoClaudeWindow == ClaudeWindow(FALSE, Missing, Missing)

ClaudeBody(kind, fiveHour, sevenDay) ==
    [kind |-> kind, five_hour |-> fiveHour, seven_day |-> sevenDay]

\* Math.round(Date.parse(value) / 1000), null for a non-date.
parseEpochSecondsFromIso(value) ==
    IF value.null THEN NoNum
    ELSE IF value.s # "iso" THEN NoNum
    ELSE SomeNum(value.n \div TicksPerSecond, 0)

\* toStringValue of a date-carrying string: the instant stays attached.
IsoStringValue(value) ==
    IF toStringValue(value).null THEN [null |-> TRUE, s |-> "", n |-> 0]
    ELSE [null |-> FALSE, s |-> value.s, n |-> value.n]

\* fetchClaudePayload after the usage endpoint answered.
claudePayloadFetched(response, t) ==
    LET body == response.body
        sessionWindow == body.five_hour
        weeklyWindow == body.seven_day
        sessionPctRaw == toNumber(sessionWindow.utilization)
        weeklyPctRaw == toNumber(weeklyWindow.utilization)
        sessionPct == clamp(MathRound(sessionPctRaw), 0, 100)
        weeklyPct == clamp(MathRound(weeklyPctRaw), 0, 100)
        sessionResetAt == parseEpochSecondsFromIso(IsoStringValue(sessionWindow.resets_at))
        weeklyResetAt == parseEpochSecondsFromIso(IsoStringValue(weeklyWindow.resets_at))
        sessionPacing == calcPacing(sessionPct, sessionResetAt,
                                    SomeNum(Ticks(ClaudeSessionWindowMs), 0), t)
        weeklyPacing == calcPacing(weeklyPct, weeklyResetAt,
                                   SomeNum(Ticks(ClaudeWeeklyWindowMs), 0), t)
        cssClass == deriveCssClass(weeklyPct, weeklyPacing)
        sessionCountdown == formatCountdown(sessionResetAt, t)
        weeklyCountdown == formatCountdown(weeklyResetAt, t)
    IN IF response.net = "throw" THEN Fail(NetErrorMessage, NoPayload)
       ELSE IF ~ResponseOk(response)
           THEN Fail("Claude usage API " \o ToString(response.status), NoPayload)
       ELSE IF body.kind = "notjson" THEN Fail(JsonErrorMessage, NoPayload)
       ELSE IF body.kind # "record" THEN Fail("Invalid Claude usage payload", NoPayload)
       ELSE IF ~sessionWindow.present \/ ~weeklyWindow.present
           THEN Fail("Claude usage windows missing", NoPayload)
       ELSE IF sessionPctRaw.null \/ weeklyPctRaw.null
           THEN Fail("Claude usage percentages missing", NoPayload)
       ELSE Ok([text |-> addProviderBadge(UsageText(weeklyPacing, weeklyPct, weeklyCountdown), "A"),
                tooltip |-> UsageTooltip("Provider: Claude (oauth)",
                                         sessionPct, sessionPacing, sessionCountdown,
                                         weeklyPct, weeklyPacing, weeklyCountdown),
                class |-> mergeClasses(<<cssClass, "provider-claude">>),
                percentage |-> SomeNum(sessionPct, 0)])

----------------------------------------------------------------------------
(* codex app-server RPC fallback: lines, handlers, result parsing *)

RpcWindow(present, usedPercent, resetsAt, windowDurationMins) ==
    [present |-> present, usedPercent |-> usedPercent, resetsAt |-> resetsAt,
     windowDurationMins |-> windowDurationMins]

NoRpcWindow == RpcWindow(FALSE, Missing, Missing, Missing)

RpcLimits(present, primary, secondary, balance, planType) ==
    [present |-> present, primary |-> primary, secondary |-> secondary,
     credits |-> [present |-> balance.t # "missing", balance |-> balance],
     planType |-> planType]

NoRpcLimits == RpcLimits(FALSE, NoRpcWindow, NoRpcWindow, Missing, Missing)

\* The result field of a rate-limits response: present = it is an object.
RpcResult(present, codexLimit, rateLimits) ==
    [present |-> present,
     rateLimitsByLimitId |-> [present |-> codexLimit.present, codex |-> codexLimit],
     rateLimits |-> rateLimits]

NoRpcResult == RpcResult(FALSE, NoRpcLimits, NoRpcLimits)

\* The lines a subprocess of the model writes, as JSON text.
LineInit == "{\"id\":1,\"result\":{}}"
LineAccount == "{\"id\":2,\"result\":{}}"
LineLimits ==
    "{\"id\":3,\"result\":{\"rateLimits\":{\"primary\":{\"usedPercent\":7,\"resetsAt\":2003600,\"windowDurationMins\":300},\"secondary\":{\"usedPercent\":55,\"resetsAt\":2086400,\"windowDurationMins\":10080}}}}"
LineLimitsById ==
    "{\"id\":3,\"result\":{\"rateLimitsByLimitId\":{\"codex\":{\"primary\":{\"usedPercent\":120.5},\"secondary\":{\"usedPercent\":-5}}}}}"
LineLimitsNoWindows == "{\"id\":3,\"result\":{\"rateLimits\":{\"primary\":{}}}}"
LineLimitsEmpty == "{\"id\":3,\"result\":{}}"
LineNoResult == "{\"id\":3}"
LineNotify == "{\"method\":\"codex/event\"}"
LineArray == "[3]"
LineGarbage == "codex: warming up"

ParsedLine(valid, isRecord, id, result) ==
    [valid |-> valid, isRecord |-> isRecord, id |-> id, result |-> result]

\* JSON.parse on the lines above; any other text is not JSON.
JsonParseLine(line) ==
    CASE line = LineInit -> ParsedLine(TRUE, TRUE, Num(1), RpcResult(TRUE, NoRpcLimits, NoRpcLimits))
      [] line = LineAccount -> ParsedLine(TRUE, TRUE, Num(2), RpcResult(TRUE, NoRpcLimits, NoRpcLimits))
      [] line = LineLimits ->
            ParsedLine(TRUE, TRUE, Num(3),
                RpcResult(TRUE, NoRpcLimits,
                    RpcLimits(TRUE, RpcWindow(TRUE, Num(7), Num(2003600), Num(300)),
                              RpcWindow(TRUE, Num(55), Num(2086400), Num(10080)),
                              Missing, Missing)))
      [] line = LineLimitsById ->
            ParsedLine(TRUE, TRUE, Num(3),
                RpcResult(TRUE,
                    RpcLimits(TRUE, RpcWindow(TRUE, Frac(120, 5), Missing, Missing),
                              RpcWindow(TRUE, Num(0 - 5), Missing, Missing),
                              Missing, Missing),
                    NoRpcLimits))
      [] line = LineLimitsNoWindows ->
            ParsedLine(TRUE, TRUE, Num(3),
                RpcResult(TRUE, NoRpcLimits,
                    RpcLimits(TRUE, RpcWindow(TRUE, Missing, Missing, Missing),
                              NoRpcWindow, Missing, Missing)))
      [] line = LineLimitsEmpty -> ParsedLine(TRUE, TRUE, Num(3), RpcResult(TRUE, NoRpcLimits, NoRpcLimits))
      [] line = LineNoResult -> ParsedLine(TRUE, TRUE, Num(3), NoRpcResult)
      [] line = LineNotify -> ParsedLine(TRUE, TRUE, Missing, NoRpcResult)
      [] line = LineArray -> ParsedLine(TRUE, FALSE, Missing, NoRpcResult)
      [] OTHER -> ParsedLine(FALSE, FALSE, Missing, NoRpcResult)

\* The behaviour of one subprocess: the lines it writes to stdout in order,
\* what it writes to stderr, whether it exits by itself after that (and with
\* which code), and whether spawning it fails.
ChildPlan(lines, stderr, exits, code, spawnError) ==
    [lines |-> lines, stderr |-> stderr, exits |-> exits, code |-> code,
     spawnError |-> spawnError]

NoPlan == ChildPlan(<<>>, "", FALSE, 0, FALSE)

\* State of the exchange inside fetchCodexUsageViaRpc.
\*   os: the subprocess ("none", "alive", "dead"); termSent: SIGTERM was sent;
\*   killed: child.killed; exitSeen: the exit event was handled;
\*   errorSeen: the error event was handled; timer: the 8 s timer is armed;
\*   settled / promise / result / error: the flag and the promise;
\*   written, errWritten, pipe, errPipe: what the subprocess has written and
\*   what of it is still undelivered; sent: messages written to its stdin;
\*   code: the exit code reported by the exit event (-1 stands for null);
\*   handled: the lines passed to handleLine so far (history).
RpcIdle ==
    [spawned |-> 0, os |-> "none", termSent |-> FALSE, killed |-> FALSE,
     exitSeen |-> FALSE, errorSeen |-> FALSE, timer |-> FALSE, settled |-> FALSE,
     promise |-> "none", result |-> NoRpcResult, error |-> "",
     stdoutBuffer |-> "", stderrBuffer |-> "", sent |-> <<>>,
     written |-> 0, errWritten |-> FALSE, pipe |-> "", errPipe |-> "", code |-> 0,
     handled |-> <<>>]

\* child.kill("SIGTERM"): delivers the signal and sets child.killed when the
\* process is still there.
Kill(r) == IF r.os = "alive" THEN [r EXCEPT !.termSent = TRUE, !.killed = TRUE] ELSE r

\* The timer cleared and the subprocess left alone.
cleanup_ClearOnly(r) == [r EXCEPT !.timer = FALSE]

cleanup(r) ==
    LET cleared == [r EXCEPT !.timer = FALSE]
    IN IF ~cleared.killed THEN Kill(cleared) ELSE cleared

Reject(r, message) ==
    IF r.promise = "pending" THEN [r EXCEPT !.promise = "rejected", !.error = message] ELSE r

Resolve(r, data) ==
    IF r.promise = "pending" THEN [r EXCEPT !.promise = "resolved", !.result = data] ELSE r

fail(r, message) ==
    IF r.settled THEN r
    ELSE Reject(cleanup([r EXCEPT !.settled = TRUE]), message)

succeed(r, data) ==
    IF r.settled THEN r
    ELSE Resolve(cleanup([r EXCEPT !.settled = TRUE]), data)

send(r, message) == [r EXCEPT !.sent = Append(r.sent, message)]

\* Every response with a result taken as the answer.
handleLine_AnyResponse(r, line) ==
    LET parsed == JsonParseLine(line)
        id == toNumber(parsed.id)
    IN IF line = "" THEN r
       ELSE IF ~parsed.valid THEN r
       ELSE IF ~parsed.isRecord THEN r
       ELSE IF ~id.null /\ id.n = 1 /\ id.f = 0
           THEN send(send(send(r, "initialized"), "account/read#2"), "account/rateLimits/read#3")
       ELSE IF ~id.null
           THEN IF ~parsed.result.present THEN fail(r, "RPC missing result field")
                ELSE succeed(r, parsed.result)
       ELSE r

handleLine(r, line) ==
    LET parsed == JsonParseLine(line)
        id == toNumber(parsed.id)
    IN IF line = "" THEN r
       ELSE IF ~parsed.valid THEN r
       ELSE IF ~parsed.isRecord THEN r
       ELSE IF ~id.null /\ id.n = 1 /\ id.f = 0
           THEN send(send(send(r, "initialized"), "account/read#2"), "account/rateLimits/read#3")
       ELSE IF ~id.null /\ id.n = 3 /\ id.f = 0
           THEN IF ~parsed.result.present THEN fail(r, "RPC missing result field")
                ELSE succeed(r, parsed.result)
       ELSE r

\* stdoutBuffer.indexOf("\n"), 0 when there is none (positions count from 1).
NewlineIndex(x) ==
    IF \E i \in 1..Len(x) : SubSeq(x, i, i) = "\n"
    THEN CHOOSE i \in 1..Len(x) :
            /\ SubSeq(x, i, i) = "\n"
            /\ \A j \in 1..(i - 1) : SubSeq(x, j, j) # "\n"
    ELSE 0

\* The while loop of the stdout data handler.
RECURSIVE drainLines(_)
drainLines(r) ==
    LET newlineIndex == NewlineIndex(r.stdoutBuffer)
        line == Trim(SubSeq(r.stdoutBuffer, 1, newlineIndex - 1))
        rest == SubSeq(r.stdoutBuffer, newlineIndex + 1, Len(r.stdoutBuffer))
    IN IF newlineIndex = 0 THEN r
       ELSE drainLines(handleLine([r EXCEPT !.stdoutBuffer = rest,
                                            !.handled = Append(r.handled, line)], line))

\* chunk.toString("utf8").  A chunk is a string with one character per byte;
\* the two bytes of a two-byte character are written LeadByte, ContByte and
\* decode to TwoByteChar.  A lead byte with no continuation byte after it in
\* the chunk, and a continuation byte with no lead byte before it, decode to
\* the replacement character.
LeadByte == "Ã"
ContByte == "©"
TwoByteChar == "é"
ReplacementChar == "�"

RECURSIVE Utf8From(_, _)
Utf8From(chunk, i) ==
    IF i > Len(chunk) THEN ""
    ELSE LET byte == SubSeq(chunk, i, i)
         IN IF byte = LeadByte /\ i < Len(chunk) /\ SubSeq(chunk, i + 1, i + 1) = ContByte
                THEN TwoByteChar \o Utf8From(chunk, i + 2)
            ELSE IF byte \in {LeadByte, ContByte} THEN ReplacementChar \o Utf8From(chunk, i + 1)
            ELSE byte \o Utf8From(chunk, i + 1)

Utf8ToString(chunk) ==
    IF \A i \in 1..Len(chunk) : SubSeq(chunk, i, i) \notin {LeadByte, ContByte} THEN chunk
    ELSE Utf8From(chunk, 1)

onStdoutData(r, chunk) ==
    drainLines([r EXCEPT !.stdoutBuffer = r.stdoutBuffer \o Utf8ToString(chunk)])

onStderrData(r, chunk) == [r EXCEPT !.stderrBuffer = r.stderrBuffer \o chunk]

onError(r, message) == fail(r, message)

\* The captured stderr text left out of the error.
onExit_CodeOnly(r, code) ==
    IF r.settled THEN r
    ELSE fail(r, "RPC exited (" \o ToString(code) \o ")")

onExit(r, code) ==
    IF r.settled THEN r
    ELSE fail(r, IF Trim(r.stderrBuffer) # "" THEN Trim(r.stderrBuffer)
                 ELSE "RPC exited (" \o ToString(code) \o ")")

\* The timer callback without its reject.
onTimeout_KillOnly(r) == Kill([r EXCEPT !.timer = FALSE])

onTimeout(r) == Reject(Kill([r EXCEPT !.timer = FALSE]), "RPC timeout")

\* The whole handshake written at once.
spawnRpc_SendsAll(r, plan) ==
    send(send(send(send([r EXCEPT !.spawned = r.spawned + 1,
                                  !.os = IF plan.spawnError THEN "none" ELSE "alive",
                                  !.timer = TRUE, !.promise = "pending"],
                        "initialize#1"), "initialized"), "account/read#2"),
         "account/rateLimits/read#3")

\* The executor of the promise: spawn, arm the timer, send initialize.
spawnRpc(r, plan) ==
    send([r EXCEPT !.spawned = r.spawned + 1,
                   !.os = IF plan.spawnError THEN "none" ELSE "alive",
                   !.timer = TRUE, !.promise = "pending"],
         "initialize#1")

\* The snapshot of the fallback labelled with the source of the primary path.
rpcUsageParsed_OauthSource(rateLimitResult) ==
    LET rateLimitsById == rateLimitResult.rateLimitsByLimitId
        codexLimit == rateLimitsById.codex
        rateLimits == IF rateLimitsById.present /\ codexLimit.present THEN codexLimit
                      ELSE rateLimitResult.rateLimits
        primary == rateLimits.primary
        secondary == rateLimits.secondary
        sessionPct == WindowNumber(primary.present, primary.usedPercent)
        weeklyPct == WindowNumber(secondary.present, secondary.usedPercent)
    IN IF ~rateLimits.present THEN Fail("RPC response missing rate limits", NoUsage)
       ELSE IF sessionPct.null \/ weeklyPct.null THEN Fail("RPC missing usage windows", NoUsage)
       ELSE Ok([sessionPct |-> clamp(MathRound(sessionPct), 0, 100),
                weeklyPct |-> clamp(MathRound(weeklyPct), 0, 100),
                sessionResetAt |-> WindowNumber(primary.present, primary.resetsAt),
                weeklyResetAt |-> WindowNumber(secondary.present, secondary.resetsAt),
                sessionWindowMinutes |-> WindowNumber(primary.present, primary.windowDurationMins),
                weeklyWindowMinutes |-> WindowNumber(secondary.present, secondary.windowDurationMins),
                credits |-> WindowNumber(rateLimits.credits.present, rateLimits.credits.balance),
                source |-> "oauth",
                planType |-> toStringValue(rateLimits.planType)])

\* fetchCodexUsageViaRpc after the promise resolved with rateLimitResult.
rpcUsageParsed(rateLimitResult) ==
    LET rateLimitsById == rateLimitResult.rateLimitsByLimitId
        codexLimit == rateLimitsById.codex
        rateLimits == IF rateLimitsById.present /\ codexLimit.present THEN codexLimit
                      ELSE rateLimitResult.rateLimits
        primary == rateLimits.primary
        secondary == rateLimits.secondary
        sessionPct == WindowNumber(primary.present, primary.usedPercent)
        weeklyPct == WindowNumber(secondary.present, secondary.usedPercent)
    IN IF ~rateLimits.present THEN Fail("RPC response missing rate limits", NoUsage)
       ELSE IF sessionPct.null \/ weeklyPct.null THEN Fail("RPC missing usage windows", NoUsage)
       ELSE Ok([sessionPct |-> clamp(MathRound(sessionPct), 0, 100),
                weeklyPct |-> clamp(MathRound(weeklyPct), 0, 100),
                sessionResetAt |-> WindowNumber(primary.present, primary.resetsAt),
                weeklyResetAt |-> WindowNumber(secondary.present, secondary.resetsAt),
                sessionWindowMinutes |-> WindowNumber(primary.present, primary.windowDurationMins),
                weeklyWindowMinutes |-> WindowNumber(secondary.present, secondary.windowDurationMins),
                credits |-> WindowNumber(rateLimits.credits.present, rateLimits.credits.balance),
                source |-> "rpc",
                planType |-> toStringValue(rateLimits.planType)])

----------------------------------------------------------------------------
(* renderClaudex and main: catch blocks and output *)

claudeFailed(message) == errorPayload("Claude failed: " \o message)

\* The error of the fallback alone.
codexFailed_RpcOnly(oauthMessage, rpcMessage) ==
    errorPayload("Codex failed\nRPC: " \o rpcMessage)

codexFailed(oauthMessage, rpcMessage) ==
    errorPayload("Codex failed\nOAuth: " \o oauthMessage \o "\nRPC: " \o rpcMessage)

\* The fallback for every provider.
hasFallback_Always(prov) == TRUE

\* renderClaudex: only the codex branch has a second try block around
\* fetchCodexUsageViaRpc.
hasFallback(prov) == prov = CODEX_PROVIDER

\* JSON.stringify(payload): keys whose value is undefined are left out.
JsonKeys(p) ==
    {"text", "tooltip"}
        \cup (IF p.class.form = "undefined" THEN {} ELSE {"class"})
        \cup (IF p.percentage.null THEN {} ELSE {"percentage"})

JsonLine(p) == [kind |-> "json", text |-> "", keys |-> JsonKeys(p), payload |-> p]
TextLine(x) == [kind |-> "text", text |-> x, keys |-> {}, payload |-> NoPayload]

Request(url, token) == [url |-> url, token |-> token]

----------------------------------------------------------------------------
(* Inputs of the model *)

Argvs ==
    { <<>>, <<"--toggle">>, <<"--provider", "claude">>, <<"--provider", "codex">>,
      <<"--toggle", "--provider", "claude">>, <<"--provider", "gemini">>, <<"--verbose">> }

ProviderFiles == { NoFile, FileOf("claude\n"), FileOf("codex\n"), FileOf("gemini\n") }

EightDays == Ticks(EightDaysMs)
Buffer == Ticks(CLAUDE_REFRESH_BUFFER_MS)

OauthTokens(rt) == CodexTokens(TRUE, Str("at-old"), rt, Str("acct-1"), Str("idt"))

DefaultCodexFile == CodexRecord(Missing, OauthTokens(Str("rt-old")), IsoStr(Now0 - 10), Str("chatgpt"))

CodexFiles ==
    { CodexNonRecord("absent"), CodexNonRecord("badjson"), CodexNonRecord("notrecord"),
      CodexRecord(Str("sk-key"), NoCodexTokens, Missing, Str("apikey")),
      CodexRecord(Str("sk-key"), OauthTokens(Str("rt-old")), Missing, Str("apikey")),
      CodexRecord(Missing, NoCodexTokens, Missing, Str("chatgpt")),
      CodexRecord(Missing, CodexTokens(TRUE, Str(" "), Str("rt-old"), Missing, Str("idt")),
                  Missing, Str("chatgpt")),
      CodexRecord(Missing, OauthTokens(Missing), Missing, Str("chatgpt")),
      DefaultCodexFile,
      CodexRecord(Missing, OauthTokens(Str("rt-old")), IsoStr(Now0 - EightDays), Str("chatgpt")),
      CodexRecord(Missing, OauthTokens(Str("rt-old")), IsoStr(Now0 - EightDays - 1), Str("chatgpt")),
      CodexRecord(Missing, OauthTokens(Str("rt-old")), Str("yesterday"), Str("chatgpt")),
      CodexRecord(Missing, OauthTokens(Str("rt-old")), Missing, Str("chatgpt")) }

ClaudeCreds(rt, expiresAt) ==
    ClaudeRecord(ClaudeOauthRec(TRUE, Str("at-old"), rt, expiresAt, Str("user:inference")),
                 Str("mcp"))

DefaultClaudeFile == ClaudeCreds(Str("rt-old"), Num(Now0 + 3600))

ClaudeFiles ==
    { ClaudeNonRecord("absent"), ClaudeNonRecord("badjson"), ClaudeNonRecord("notrecord"),
      ClaudeRecord(NoClaudeOauth, Str("mcp")),
      ClaudeRecord(ClaudeOauthRec(TRUE, Missing, Str("rt-old"), Num(Now0 - 5), Missing), Str("mcp")),
      ClaudeCreds(Missing, Num(Now0 - 5)),
      ClaudeCreds(Str("rt-old"), Missing),
      ClaudeCreds(Str("rt-old"), Num(Now0 + Buffer)),
      ClaudeCreds(Str("rt-old"), Num(Now0 + Buffer - 1)),
      DefaultClaudeFile }

TokenResponses ==
    { TokenResponse("throw", 0, "notjson", Missing, Missing, Missing),
      TokenResponse("ok", 401, "record", Missing, Missing, Missing),
      TokenResponse("ok", 200, "notjson", Missing, Missing, Missing),
      TokenResponse("ok", 200, "notrecord", Missing, Missing, Missing),
      TokenResponse("ok", 200, "record", Str("at-new"), Str("rt-new"), Num(3600)),
      TokenResponse("ok", 200, "record", Str("at-new"), Missing, Num(3600)),
      TokenResponse("ok", 200, "record", Missing, Missing, Missing) }

GoodPrimary == CodexWindow(TRUE, Num(7), Num(Now0 + 3600), Num(18000))
GoodSecondary == CodexWindow(TRUE, Num(55), Num(Now0 + 86400), Num(604800))

CodexUsageResponses ==
    { UsageResponse("throw", 0, CodexNonRecordBody("notjson")),
      UsageResponse("ok", 500, CodexNonRecordBody("notjson")),
      UsageResponse("ok", 200, CodexNonRecordBody("notjson")),
      UsageResponse("ok", 200, CodexNonRecordBody("notrecord")),
      UsageResponse("ok", 200, CodexBody("record", TRUE, GoodPrimary, GoodSecondary, Num(12), Str("plus"))),
      UsageResponse("ok", 200, CodexBody("record", TRUE,
          CodexWindow(TRUE, Frac(120, 5), Missing, Missing),
          CodexWindow(TRUE, Num(0 - 5), Num(Now0 + 86400), Missing), Missing, Missing)),
      UsageResponse("ok", 200, CodexBody("record", TRUE,
          CodexWindow(TRUE, Str("42"), Missing, Missing),
          CodexWindow(TRUE, Num(0), Missing, Missing), Missing, Missing)),
      UsageResponse("ok", 200, CodexBody("record", TRUE, GoodPrimary,
          CodexWindow(TRUE, Missing, Num(Now0 + 86400), Num(604800)), Missing, Missing)),
      UsageResponse("ok", 200, CodexBody("record", TRUE,
          CodexWindow(TRUE, JNull, Num(Now0 + 3600), Num(18000)), GoodSecondary, Missing, Missing)),
      UsageResponse("ok", 200, CodexBody("record", TRUE, NoCodexWindow, GoodSecondary, Missing, Missing)),
      UsageResponse("ok", 200, CodexBody("record", FALSE, NoCodexWindow, NoCodexWindow, Missing, Missing)) }

GoodFiveHour == ClaudeWindow(TRUE, Num(7), IsoStr(Now0 + 3600))
GoodSevenDay == ClaudeWindow(TRUE, Num(55), IsoStr(Now0 + 86400))

ClaudeUsageResponses ==
    { UsageResponse("throw", 0, ClaudeBody("notjson", NoClaudeWindow, NoClaudeWindow)),
      UsageResponse("ok", 500, ClaudeBody("notjson", NoClaudeWindow, NoClaudeWindow)),
      UsageResponse("ok", 200, ClaudeBody("notjson", NoClaudeWindow, NoClaudeWindow)),
      UsageResponse("ok", 200, ClaudeBody("notrecord", NoClaudeWindow, NoClaudeWindow)),
      UsageResponse("ok", 200, ClaudeBody("record", GoodFiveHour, GoodSevenDay)),
      UsageResponse("ok", 200, ClaudeBody("record",
          ClaudeWindow(TRUE, Frac(120, 5), Missing), ClaudeWindow(TRUE, Num(0 - 5), Str("soon")))),
      UsageResponse("ok", 200, ClaudeBody("record",
          ClaudeWindow(TRUE, Str("42"), Missing), ClaudeWindow(TRUE, Num(0), Missing))),
      UsageResponse("ok", 200, ClaudeBody("record", GoodFiveHour,
          ClaudeWindow(TRUE, Missing, IsoStr(Now0 + 86400)))),
      UsageResponse("ok", 200, ClaudeBody("record",
          ClaudeWindow(TRUE, JNull, IsoStr(Now0 + 3600)), GoodSevenDay)),
      UsageResponse("ok", 200, ClaudeBody("record", NoClaudeWindow, GoodSevenDay)),
      UsageResponse("ok", 200, ClaudeBody("record", GoodFiveHour, NoClaudeWindow)) }

ChildPlans ==
    { ChildPlan(<<>>, "", FALSE, 0, TRUE),
      ChildPlan(<<>>, "", FALSE, 0, FALSE),
      ChildPlan(<<>>, "not logged in\n", TRUE, 1, FALSE),
      ChildPlan(<<LineGarbage>>, "", TRUE, 0, FALSE),
      ChildPlan(<<LineInit, LineLimits>>, "", FALSE, 0, FALSE),
      ChildPlan(<<LineNotify, LineInit, LineArray, LineAccount, LineLimits>>, "", FALSE, 0, FALSE),
      ChildPlan(<<LineInit, LineLimitsById>>, "", TRUE, 0, FALSE),
      ChildPlan(<<LineInit, LineNoResult>>, "", FALSE, 0, FALSE),
      ChildPlan(<<LineInit, LineLimitsNoWindows>>, "", FALSE, 0, FALSE),
      ChildPlan(<<LineLimitsEmpty>>, "", FALSE, 0, FALSE) }

NoTokenResponse == TokenResponse("none", 0, "none", Missing, Missing, Missing)
NoUsageResponse == UsageResponse("none", 0, CodexNonRecordBody("none"))
NoneReceived == [token |-> NoTokenResponse, usage |-> NoUsageResponse]

\* Outcomes of runCommand("pkill", ...) inside refreshWaybar.
PkillOutcomes == {"signalled", "no-process", "spawn-error", "timeout"}

\* Subprocesses whose stdout is read in chunks of every size: the lines are
\* written as bytes, one of them holds a two-byte character.
FramingPlans ==
    { ChildPlan(<<LineInit, LineAccount>>, "", FALSE, 0, FALSE),
      ChildPlan(<<LineGarbage, "", LineInit>>, "", FALSE, 0, FALSE),
      ChildPlan(<<"caf" \o LeadByte \o ContByte, LineInit>>, "", FALSE, 0, FALSE) }

\* No concurrent invocations.
NoProcs == <<>>

\* No function applied on its own.
NoCall ==
    [fn |-> "none", usagePct |-> 0, resetAt |-> NoNum, windowTicks |-> NoNum,
     pacing |-> Pacing("", "", 0, 0), cssClass |-> "", countdown |-> "",
     argv |-> <<>>, args |-> parseArgs(<<>>), bar |-> [icon |-> "", status |-> ""]]

\* Largest utilization percentage and window length (in ticks) tried on the
\* pacing functions.
MaxUsagePct == 100
PacingWindow == 100

\* A window length that does not divide 100, and the number of ticks tried
\* before the start of the window and after its end.
ShortWindow == 7
PacingMargin == 5

\* Arguments of calcPacing: every percentage, a reset time that is unknown
\* or puts the invocation at each point of the window and up to
\* PacingMargin ticks before its start and after its end, and a window
\* length that is unknown, zero, PacingWindow or ShortWindow.
PacingCalls ==
    { [NoCall EXCEPT !.usagePct = u, !.resetAt = r, !.windowTicks = w] :
        u \in 0..MaxUsagePct,
        r \in {NoNum} \cup { SomeNum(Now0 + PacingWindow - k, 0) :
                                k \in (0 - PacingMargin)..(PacingWindow + PacingMargin) },
        w \in {NoNum, SomeNum(0, 0), SomeNum(PacingWindow, 0), SomeNum(ShortWindow, 0)} }

\* Longest argument list tried on parseArgs, and the words it is made of.
MaxArgs == 3
ArgWords == {"--toggle", "--provider", "claude", "codex", "gemini", "--verbose"}

\* Arguments of parseArgs: every list of at most MaxArgs words.
ArgCalls ==
    { [NoCall EXCEPT !.argv = av] :
        av \in UNION { [1..n -> ArgWords] : n \in 0..MaxArgs } }

\* Longest countdown tried on formatCountdown, in minutes (two days and an
\* hour).
MaxAheadMinutes == 2940

\* Arguments of formatCountdown: a reset time from one minute in the past to
\* MaxAheadMinutes ahead, on a minute boundary, one second after it and one
\* second before the next.
CountdownCalls ==
    { [NoCall EXCEPT !.resetAt = SomeNum(Now0 + (60 * m + sec) * TicksPerSecond, 0)] :
        m \in (0 - 1)..MaxAheadMinutes, sec \in {0, 1, 59} }

----------------------------------------------------------------------------
(* The invocation *)

Init ==
    /\ argv \in Argvs
    /\ providerFile \in ProviderFiles
    /\ codexFile \in CodexFiles
    /\ claudeFile \in ClaudeFiles
    \* the credential file varies for the provider a plain invocation selects
    /\ (argv # <<>> \/ readProvider(providerFile) # CODEX_PROVIDER) => codexFile = DefaultCodexFile
    /\ (argv # <<>> \/ readProvider(providerFile) # CLAUDE_PROVIDER) => claudeFile = DefaultClaudeFile
    /\ now = Now0
    /\ pc = "start"
    /\ args = parseArgs(<<>>)
    /\ next = CODEX_PROVIDER
    /\ provider = CODEX_PROVIDER
    /\ auth = NoCodexAuth
    /\ requests = <<>>
    /\ writes = <<>>
    /\ signals = <<>>
    /\ oauthErr = ""
    /\ childPlan = NoPlan
    /\ rpc = RpcIdle
    /\ payload = NoPayload
    /\ out = <<>>
    /\ exitCode = -1
    /\ initial = [codex |-> codexFile, claude |-> claudeFile, provider |-> providerFile]
    /\ received = NoneReceived
    /\ call = NoCall
    /\ procs = NoProcs

\* main: parseArgs and the choice of branch.
ParseArgs ==
    /\ pc = "start"
    /\ args' = parseArgs(argv)
    /\ pc' = IF parseArgs(argv).toggleProvider THEN "toggle_read"
             ELSE IF ~parseArgs(argv).provider.null THEN "set_write"
             ELSE "select"
    /\ UNCHANGED <<argv, call, procs, initial, received, providerFile, codexFile, claudeFile, now, next, provider, auth,
                   requests, writes, signals, oauthErr, childPlan, rpc, payload, out, exitCode>>

\* main, --toggle: readProvider and nextProvider.
ToggleRead ==
    /\ pc = "toggle_read"
    /\ next' = nextProvider(readProvider(providerFile))
    /\ pc' = "toggle_write"
    /\ UNCHANGED <<argv, call, procs, initial, received, providerFile, codexFile, claudeFile, now, args, provider, auth,
                   requests, writes, signals, oauthErr, childPlan, rpc, payload, out, exitCode>>

\* main, --toggle: writeProvider(next).
ToggleWrite ==
    /\ pc = "toggle_write"
    /\ providerFile' = writeProvider(next)
    /\ writes' = Append(writes, "provider")
    /\ pc' = IF args.provider.null THEN "toggle_signal" ELSE "set_write"
    /\ UNCHANGED <<argv, call, procs, initial, received, codexFile, claudeFile, now, args, next, provider, auth,
                   requests, signals, oauthErr, childPlan, rpc, payload, out, exitCode>>

\* main, --toggle alone: refreshWaybar, print the new provider, return.
ToggleSignal ==
    /\ pc = "toggle_signal"
    /\ \E outcome \in PkillOutcomes : signals' = Append(signals, outcome)
    /\ out' = Append(out, TextLine(next))
    /\ pc' = "done"
    /\ exitCode' = 0
    /\ UNCHANGED <<argv, call, procs, initial, received, providerFile, codexFile, claudeFile, now, args, next, provider, auth,
                   requests, writes, oauthErr, childPlan, rpc, payload>>

\* main, --provider: writeProvider(args.provider).
SetWrite ==
    /\ pc = "set_write"
    /\ providerFile' = writeProvider(args.provider.s)
    /\ writes' = Append(writes, "provider")
    /\ pc' = IF ~args.toggleProvider THEN "set_signal" ELSE "select"
    /\ UNCHANGED <<argv, call, procs, initial, received, codexFile, claudeFile, now, args, next, provider, auth,
                   requests, signals, oauthErr, childPlan, rpc, payload, out, exitCode>>

\* main, --provider alone: refreshWaybar, print the provider, return.
SetSignal ==
    /\ pc = "set_signal"
    /\ \E outcome \in PkillOutcomes : signals' = Append(signals, outcome)
    /\ out' = Append(out, TextLine(args.provider.s))
    /\ pc' = "done"
    /\ exitCode' = 0
    /\ UNCHANGED <<argv, call, procs, initial, received, providerFile, codexFile, claudeFile, now, args, next, provider, auth,
                   requests, writes, oauthErr, childPlan, rpc, payload>>

\* The selector read and saved back in its normal form.
SelectProvider_Persists ==
    /\ pc = "select"
    /\ provider' = readProvider(providerFile)
    /\ providerFile' = writeProvider(readProvider(providerFile))
    /\ writes' = Append(writes, "provider")
    /\ pc' = IF readProvider(providerFile) = CLAUDE_PROVIDER THEN "claude_load" ELSE "codex_load"
    /\ UNCHANGED <<argv, call, procs, initial, received, codexFile, claudeFile, now, args, next, auth,
                   requests, signals, oauthErr, childPlan, rpc, payload, out, exitCode>>

\* main: readProvider, then renderClaudex picks the provider's branch.
SelectProvider ==
    /\ pc = "select"
    /\ provider' = readProvider(providerFile)
    /\ pc' = IF readProvider(providerFile) = CLAUDE_PROVIDER THEN "claude_load" ELSE "codex_load"
    /\ UNCHANGED <<argv, call, procs, initial, received, providerFile, codexFile, claudeFile, now, args, next, auth,
                   requests, writes, signals, oauthErr, childPlan, rpc, payload, out, exitCode>>

\* The catch blocks of renderClaudex around the primary path: the claude
\* branch returns an error payload; the codex branch calls
\* fetchCodexUsageViaRpc, which spawns the subprocess and sends initialize.
PrimaryFailed(message) ==
    IF hasFallback(provider)
    THEN /\ \E plan \in ChildPlans :
                /\ childPlan' = plan
                /\ rpc' = spawnRpc(rpc, plan)
         /\ oauthErr' = message
         /\ pc' = "rpc_wait"
         /\ UNCHANGED payload
    ELSE /\ payload' = claudeFailed(message)
         /\ pc' = "emit"
         /\ UNCHANGED <<oauthErr, childPlan, rpc>>


\* fetchClaudePayload: loadClaudeOAuth.
ClaudeLoad ==
    /\ pc = "claude_load"
    /\ LET loaded == loadClaudeOAuth(claudeFile)
       IN IF loaded.ok
          THEN /\ auth' = loaded.value
               /\ pc' = "claude_refresh"
               /\ UNCHANGED <<oauthErr, childPlan, rpc, payload>>
          ELSE /\ PrimaryFailed(loaded.message)
               /\ UNCHANGED auth
    /\ UNCHANGED <<argv, call, procs, initial, received, providerFile, codexFile, claudeFile, now, args, next, provider,
                   requests, writes, signals, out, exitCode>>

\* maybeRefreshClaudeToken up to the refresh request, or, when no refresh is
\* due, fetchClaudePayload up to the usage request.
ClaudeMaybeRefresh ==
    /\ pc = "claude_refresh"
    /\ IF claudeSendsRefresh(auth, now)
       THEN /\ requests' = Append(requests, Request("claude-token", auth.refreshToken.s))
            /\ pc' = "claude_refresh_wait"
       ELSE /\ requests' = Append(requests, Request("claude-usage", auth.accessToken))
            /\ pc' = "claude_usage_wait"
    /\ UNCHANGED <<argv, call, procs, initial, received, providerFile, codexFile, claudeFile, now, args, next, provider, auth,
                   writes, signals, oauthErr, childPlan, rpc, payload, out, exitCode>>

\* maybeRefreshClaudeToken from the token endpoint's answer on, then
\* fetchClaudePayload up to the usage request.
ClaudeRefreshResponse ==
    /\ pc = "claude_refresh_wait"
    /\ \E response \in TokenResponses :
        LET refreshed == claudeRefreshed(auth, response, now)
        IN /\ received' = [received EXCEPT !.token = response]
           /\ IF refreshed.ok
              THEN /\ auth' = refreshed.value.auth
                   /\ claudeFile' = IF refreshed.value.wrote THEN refreshed.value.file ELSE claudeFile
                   /\ writes' = IF refreshed.value.wrote THEN Append(writes, "claude") ELSE writes
                   /\ requests' = Append(requests,
                                         Request("claude-usage", refreshed.value.auth.accessToken))
                   /\ pc' = "claude_usage_wait"
                   /\ UNCHANGED <<oauthErr, childPlan, rpc, payload>>
              ELSE /\ PrimaryFailed(refreshed.message)
                   /\ UNCHANGED <<auth, claudeFile, writes, requests>>
    /\ UNCHANGED <<argv, call, procs, initial, providerFile, codexFile, now, args, next, provider, signals, out,
                   exitCode>>

\* fetchClaudePayload from the usage endpoint's answer on.
ClaudeUsageResponse ==
    /\ pc = "claude_usage_wait"
    /\ \E response \in ClaudeUsageResponses :
        LET fetched == claudePayloadFetched(response, now)
        IN /\ received' = [received EXCEPT !.usage = response]
           /\ IF fetched.ok
              THEN /\ payload' = fetched.value
                   /\ pc' = "emit"
                   /\ UNCHANGED <<oauthErr, childPlan, rpc>>
              ELSE PrimaryFailed(fetched.message)
    /\ UNCHANGED <<argv, call, procs, initial, providerFile, codexFile, claudeFile, now, args, next, provider, auth,
                   requests, writes, signals, out, exitCode>>

\* fetchCodexUsageViaOAuth: loadCodexAuth.
CodexLoad ==
    /\ pc = "codex_load"
    /\ LET loaded == loadCodexAuth(codexFile)
       IN IF loaded.ok
          THEN /\ auth' = loaded.value
               /\ pc' = "codex_refresh"
               /\ UNCHANGED <<oauthErr, childPlan, rpc, payload>>
          ELSE /\ PrimaryFailed(loaded.message)
               /\ UNCHANGED auth
    /\ UNCHANGED <<argv, call, procs, initial, received, providerFile, codexFile, claudeFile, now, args, next, provider,
                   requests, writes, signals, out, exitCode>>

\* maybeRefreshCodexToken up to the refresh request, or, when no refresh is
\* due, fetchCodexUsageViaOAuth up to the usage request.
CodexMaybeRefresh ==
    /\ pc = "codex_refresh"
    /\ IF codexSendsRefresh(auth, now)
       THEN /\ requests' = Append(requests, Request("codex-token", auth.refreshToken.s))
            /\ pc' = "codex_refresh_wait"
       ELSE /\ requests' = Append(requests, Request("codex-usage", auth.accessToken))
            /\ pc' = "codex_usage_wait"
    /\ UNCHANGED <<argv, call, procs, initial, received, providerFile, codexFile, claudeFile, now, args, next, provider, auth,
                   writes, signals, oauthErr, childPlan, rpc, payload, out, exitCode>>

\* maybeRefreshCodexToken from the token endpoint's answer on, then
\* fetchCodexUsageViaOAuth up to the usage request.
CodexRefreshResponse ==
    /\ pc = "codex_refresh_wait"
    /\ \E response \in TokenResponses :
        LET refreshed == codexRefreshed(auth, response, now)
        IN /\ received' = [received EXCEPT !.token = response]
           /\ IF refreshed.ok
              THEN /\ auth' = refreshed.value.auth
                   /\ codexFile' = IF refreshed.value.wrote THEN refreshed.value.file ELSE codexFile
                   /\ writes' = IF refreshed.value.wrote THEN Append(writes, "codex") ELSE writes
                   /\ requests' = Append(requests,
                                         Request("codex-usage", refreshed.value.auth.accessToken))
                   /\ pc' = "codex_usage_wait"
                   /\ UNCHANGED <<oauthErr, childPlan, rpc, payload>>
              ELSE /\ PrimaryFailed(refreshed.message)
                   /\ UNCHANGED <<auth, codexFile, writes, requests>>
    /\ UNCHANGED <<argv, call, procs, initial, providerFile, claudeFile, now, args, next, provider, signals, out,
                   exitCode>>

\* fetchCodexUsageViaOAuth from the usage endpoint's answer on, then
\* codexUsageToPayload.
CodexUsageResponse ==
    /\ pc = "codex_usage_wait"
    /\ \E response \in CodexUsageResponses :
        LET fetched == codexUsageFetched(response)
        IN /\ received' = [received EXCEPT !.usage = response]
           /\ IF fetched.ok
              THEN /\ payload' = codexUsageToPayload(fetched.value, now)
                   /\ pc' = "emit"
                   /\ UNCHANGED <<oauthErr, childPlan, rpc>>
              ELSE PrimaryFailed(fetched.message)
    /\ UNCHANGED <<argv, call, procs, initial, providerFile, codexFile, claudeFile, now, args, next, provider, auth,
                   requests, writes, signals, out, exitCode>>

\* Events of the exchange are handled while the promise is pending and, as
\* late events, after main has printed its line.
RpcListening ==
    /\ rpc.spawned > 0
    /\ \/ pc = "rpc_wait" /\ rpc.promise = "pending"
       \/ pc = "done"

RpcOnly == <<argv, call, procs, initial, received, providerFile, codexFile, claudeFile, now, pc, args, next, provider, auth,
             requests, writes, signals, oauthErr, childPlan, payload, out, exitCode>>

\* The subprocess writes its next line to stdout.
ChildWrite ==
    /\ RpcListening
    /\ rpc.os = "alive"
    /\ rpc.written < Len(childPlan.lines)
    /\ rpc' = [rpc EXCEPT !.written = rpc.written + 1,
                          !.pipe = rpc.pipe \o childPlan.lines[rpc.written + 1] \o "\n"]
    /\ UNCHANGED RpcOnly

\* The subprocess writes to stderr.
ChildWriteErr ==
    /\ RpcListening
    /\ rpc.os = "alive"
    /\ childPlan.stderr # ""
    /\ ~rpc.errWritten
    /\ rpc' = [rpc EXCEPT !.errWritten = TRUE, !.errPipe = childPlan.stderr]
    /\ UNCHANGED RpcOnly

\* The subprocess ends: by itself once it has written everything, or on
\* SIGTERM (its exit code is then null, reported as -1).
ChildDies ==
    /\ RpcListening
    /\ rpc.os = "alive"
    /\ \/ rpc.termSent
       \/ /\ childPlan.exits
          /\ rpc.written = Len(childPlan.lines)
          /\ childPlan.stderr = "" \/ rpc.errWritten
    /\ rpc' = [rpc EXCEPT !.os = "dead",
                          !.code = IF childPlan.exits /\ rpc.written = Len(childPlan.lines)
                                      /\ (childPlan.stderr = "" \/ rpc.errWritten)
                                   THEN childPlan.code ELSE -1]
    /\ UNCHANGED RpcOnly

\* child.stdout.on("data"): everything written so far arrives as one chunk.
StdoutData ==
    /\ RpcListening
    /\ rpc.pipe # ""
    /\ rpc' = onStdoutData([rpc EXCEPT !.pipe = ""], rpc.pipe)
    /\ UNCHANGED RpcOnly

\* child.stderr.on("data")
StderrData ==
    /\ RpcListening
    /\ rpc.errPipe # ""
    /\ rpc' = onStderrData([rpc EXCEPT !.errPipe = ""], rpc.errPipe)
    /\ UNCHANGED RpcOnly

\* child.on("error"): the subprocess could not be spawned.
ErrorEvent ==
    /\ RpcListening
    /\ childPlan.spawnError
    /\ ~rpc.errorSeen
    /\ rpc' = onError([rpc EXCEPT !.errorSeen = TRUE], "spawn codex ENOENT")
    /\ UNCHANGED RpcOnly

\* child.on("exit")
ExitEvent ==
    /\ RpcListening
    /\ rpc.os = "dead"
    /\ ~rpc.exitSeen
    /\ rpc' = onExit([rpc EXCEPT !.exitSeen = TRUE], rpc.code)
    /\ UNCHANGED RpcOnly

\* The 8 s timer fires.
Timeout ==
    /\ RpcListening
    /\ rpc.timer
    /\ rpc' = onTimeout(rpc)
    /\ UNCHANGED RpcOnly

\* fetchCodexUsageViaRpc after the promise settled, and the inner try/catch
\* of renderClaudex.
RpcSettled ==
    /\ pc = "rpc_wait"
    /\ rpc.promise \in {"resolved", "rejected"}
    /\ payload' = IF rpc.promise = "rejected" THEN codexFailed(oauthErr, rpc.error)
                  ELSE IF rpcUsageParsed(rpc.result).ok
                      THEN codexUsageToPayload(rpcUsageParsed(rpc.result).value, now)
                  ELSE codexFailed(oauthErr, rpcUsageParsed(rpc.result).message)
    /\ pc' = "emit"
    /\ UNCHANGED <<argv, call, procs, initial, received, providerFile, codexFile, claudeFile, now, args, next, provider, auth,
                   requests, writes, signals, oauthErr, childPlan, rpc, out, exitCode>>

\* main: console.log(JSON.stringify(payload)); main's promise resolves.
Emit ==
    /\ pc = "emit"
    /\ out' = Append(out, JsonLine(payload))
    /\ pc' = "done"
    /\ exitCode' = 0
    /\ UNCHANGED <<argv, call, procs, initial, received, providerFile, codexFile, claudeFile, now, args, next, provider, auth,
                   requests, writes, signals, oauthErr, childPlan, rpc, payload>>

Next ==
    \/ ParseArgs
    \/ ToggleRead
    \/ ToggleWrite
    \/ ToggleSignal
    \/ SetWrite
    \/ SetSignal
    \/ SelectProvider
    \/ ClaudeLoad
    \/ ClaudeMaybeRefresh
    \/ ClaudeRefreshResponse
    \/ ClaudeUsageResponse
    \/ CodexLoad
    \/ CodexMaybeRefresh
    \/ CodexRefreshResponse
    \/ CodexUsageResponse
    \/ ChildWrite
    \/ ChildWriteErr
    \/ ChildDies
    \/ StdoutData
    \/ StderrData
    \/ ErrorEvent
    \/ ExitEvent
    \/ Timeout
    \/ RpcSettled
    \/ Emit

Spec == Init /\ [][Next]_vars

\* The pure functions of the script on their own: parseArgs,
\* formatCountdown, and the pacing functions chained as fetchClaudePayload and
\* codexUsageToPayload chain them for the weekly window:
\* weeklyPacing = calcPacing(weeklyPct, ...), then
\* deriveCssClass(weeklyPct, weeklyPacing).
PacingInit ==
    /\ argv = <<>>
    /\ providerFile = NoFile
    /\ codexFile = DefaultCodexFile
    /\ claudeFile = DefaultClaudeFile
    /\ now = Now0
    /\ pc = "start"
    /\ args = parseArgs(<<>>)
    /\ next = CODEX_PROVIDER
    /\ provider = CODEX_PROVIDER
    /\ auth = NoCodexAuth
    /\ requests = <<>>
    /\ writes = <<>>
    /\ signals = <<>>
    /\ oauthErr = ""
    /\ childPlan = NoPlan
    /\ rpc = RpcIdle
    /\ payload = NoPayload
    /\ out = <<>>
    /\ exitCode = -1
    /\ initial = [codex |-> codexFile, claude |-> claudeFile, provider |-> providerFile]
    /\ received = NoneReceived
    /\ call \in PacingCalls \cup CountdownCalls \cup ArgCalls
    /\ procs = NoProcs

Invocation == <<argv, procs, providerFile, codexFile, claudeFile, now, pc, args, next, provider, auth,
                requests, writes, signals, oauthErr, childPlan, rpc, payload, out, exitCode,
                initial, received>>

\* claudebar.ts, the original single-provider script.  Its calcPacing
\* computes in doubles; with usage u, s ticks since the start of a window of
\* w ticks, timeElapsedPct is 100 s / w and pacing is u w / (100 s).  For the
\* triples <<u, s, w>> of BarEdgeLost the exact quotient is 0.8 and the double
\* is just below it; for those of BarHalfLost the exact deviation ends in
\* one half and the double lies just below, so that Math.round gives one less.
BarEdgeLost ==
    { <<44, 55, 100>>, <<88, 110, 100>> }

BarHalfLost ==
    { <<13, 2, 7>>, <<17, 2, 7>>, <<21, 2, 7>>, <<26, 4, 7>>, <<34, 4, 7>>,
      <<42, 4, 7>>, <<39, 6, 7>>, <<51, 6, 7>>, <<63, 6, 7>>, <<52, 8, 7>>,
      <<68, 8, 7>>, <<84, 8, 7>>, <<78, 12, 7>>, <<85, 14, 7>>, <<87, 14, 7>>,
      <<89, 14, 7>>, <<91, 14, 7>>, <<93, 14, 7>>, <<85, 16, 8>>, <<87, 16, 8>>,
      <<89, 16, 8>>, <<91, 16, 8>>, <<93, 16, 8>>, <<17, 40, 100>>, <<27, 40, 100>>,
      <<31, 40, 100>>, <<51, 40, 100>>, <<53, 40, 100>>, <<61, 40, 100>>, <<63, 40, 100>>,
      <<71, 40, 100>>, <<81, 40, 100>>, <<87, 40, 100>>, <<91, 40, 100>>, <<97, 40, 100>>,
      <<77, 56, 100>>, <<91, 56, 100>>, <<34, 80, 100>>, <<54, 80, 100>>, <<62, 80, 100>>,
      <<51, 120, 100>>, <<81, 120, 100>>, <<93, 120, 100>>, <<37, 2, 101>>, <<71, 2, 101>>,
      <<74, 4, 101>>, <<21, 14, 101>>, <<49, 14, 101>>, <<63, 14, 101>>, <<33, 22, 101>>,
      <<77, 22, 101>>, <<39, 26, 101>>, <<91, 26, 101>>, <<42, 28, 101>>, <<98, 28, 101>>,
      <<51, 34, 101>>, <<63, 42, 101>>, <<66, 44, 101>>, <<69, 46, 101>>, <<75, 50, 101>>,
      <<78, 52, 101>>, <<81, 54, 101>>, <<84, 56, 101>>, <<99, 66, 101>> }

BarPacing(icon, status) == [icon |-> icon, status |-> status]

BarRounded(u, s, w, d) ==
    IF <<u, s, w>> \in BarHalfLost THEN RoundDiv(d, s) - 1 ELSE RoundDiv(d, s)

\* calcPacing of claudebar.ts.  An unknown reset time makes msLeft NaN, so
\* that timeElapsedPct > 0 is false and pacing is 0, as it is at or before the
\* start of the window.
claudebar_calcPacing(usagePct, resetAtEpochSeconds, windowTicks, t) ==
    LET s == IF resetAtEpochSeconds.null THEN 0
             ELSE t - (resetAtEpochSeconds.n * TicksPerSecond - windowTicks)
        u == usagePct
        w == windowTicks
    IN IF s <= 0 THEN BarPacing("↓", "100% under")
       ELSE IF u * w > 120 * s
           THEN BarPacing("↑", ToString(BarRounded(u, s, w, u * w - 100 * s)) \o "% ahead")
       ELSE IF u * w < 80 * s \/ <<u, s, w>> \in BarEdgeLost
           THEN BarPacing("↓", ToString(BarRounded(u, s, w, 100 * s - u * w)) \o "% under")
       ELSE BarPacing("→", "on track")

\* main of claudebar.ts applies calcPacing to a rounded utilization, the
\* reset time of the response and a constant window length.
CallClaudebarCalcPacing ==
    /\ call.fn = "none"
    /\ ~call.windowTicks.null /\ call.windowTicks.n > 0
    /\ call' = [call EXCEPT !.fn = "claudebar.calcPacing",
                            !.bar = claudebar_calcPacing(call.usagePct, call.resetAt,
                                                         call.windowTicks.n, now)]
    /\ UNCHANGED Invocation

CallCalcPacing ==
    /\ call.fn = "none"
    /\ call' = [call EXCEPT !.fn = "calcPacing",
                            !.pacing = calcPacing(call.usagePct, call.resetAt, call.windowTicks, now)]
    /\ UNCHANGED Invocation

CallDeriveCssClass ==
    /\ call.fn = "calcPacing"
    /\ call' = [call EXCEPT !.fn = "deriveCssClass",
                            !.cssClass = deriveCssClass(call.usagePct, call.pacing)]
    /\ UNCHANGED Invocation

CallFormatCountdown ==
    /\ call.fn = "none"
    /\ call' = [call EXCEPT !.fn = "formatCountdown",
                            !.countdown = formatCountdown(call.resetAt, now)]
    /\ UNCHANGED Invocation

CallParseArgs ==
    /\ call.fn = "none"
    /\ call' = [call EXCEPT !.fn = "parseArgs", !.args = parseArgs(call.argv)]
    /\ UNCHANGED Invocation

PacingNext ==
    \/ CallCalcPacing
    \/ CallDeriveCssClass
    \/ CallFormatCountdown
    \/ CallParseArgs
    \/ CallClaudebarCalcPacing

PacingSpec == PacingInit /\ [][PacingNext]_vars

\* The RPC fallback on its own: the invocation at the point where the codex
\* credential file was found missing and fetchCodexUsageViaRpc has spawned
\* the subprocess and written initialize.
RpcInit ==
    /\ argv = <<>>
    /\ providerFile = FileOf("codex\n")
    /\ codexFile = CodexNonRecord("absent")
    /\ claudeFile = DefaultClaudeFile
    /\ now = Now0
    /\ pc = "rpc_wait"
    /\ args = parseArgs(<<>>)
    /\ next = CODEX_PROVIDER
    /\ provider = CODEX_PROVIDER
    /\ auth = NoCodexAuth
    /\ requests = <<>>
    /\ writes = <<>>
    /\ signals = <<>>
    /\ oauthErr = loadCodexAuth(CodexNonRecord("absent")).message
    /\ childPlan \in ChildPlans
    /\ rpc = spawnRpc(RpcIdle, childPlan)
    /\ payload = NoPayload
    /\ out = <<>>
    /\ exitCode = -1
    /\ initial = [codex |-> codexFile, claude |-> claudeFile, provider |-> providerFile]
    /\ received = NoneReceived
    /\ call = NoCall
    /\ procs = NoProcs

RpcNext ==
    \/ ChildWrite
    \/ ChildWriteErr
    \/ ChildDies
    \/ StdoutData
    \/ StderrData
    \/ ErrorEvent
    \/ ExitEvent
    \/ Timeout
    \/ RpcSettled
    \/ Emit

\* The step of RpcSettled as seen on pc: the continuation of the settled
\* promise runs.
RpcSettledStep ==
    /\ pc = "rpc_wait"
    /\ rpc.promise \in {"resolved", "rejected"}
    /\ pc' = "emit"

\* The stdout data handler on its own, fed the subprocess's byte stream in
\* chunks of every size.
FramingInit ==
    /\ argv = <<>>
    /\ providerFile = FileOf("codex\n")
    /\ codexFile = CodexNonRecord("absent")
    /\ claudeFile = DefaultClaudeFile
    /\ now = Now0
    /\ pc = "rpc_wait"
    /\ args = parseArgs(<<>>)
    /\ next = CODEX_PROVIDER
    /\ provider = CODEX_PROVIDER
    /\ auth = NoCodexAuth
    /\ requests = <<>>
    /\ writes = <<>>
    /\ signals = <<>>
    /\ oauthErr = loadCodexAuth(CodexNonRecord("absent")).message
    /\ childPlan \in FramingPlans
    /\ rpc = spawnRpc(RpcIdle, childPlan)
    /\ payload = NoPayload
    /\ out = <<>>
    /\ exitCode = -1
    /\ initial = [codex |-> codexFile, claude |-> claudeFile, provider |-> providerFile]
    /\ received = NoneReceived
    /\ call = NoCall
    /\ procs = NoProcs

\* child.stdout.on("data") with a chunk that is any non-empty prefix of the
\* bytes written and not yet read.
StdoutChunk ==
    /\ RpcListening
    /\ rpc.pipe # ""
    /\ \E k \in 1..Len(rpc.pipe) :
          rpc' = onStdoutData([rpc EXCEPT !.pipe = SubSeq(rpc.pipe, k + 1, Len(rpc.pipe))],
                              SubSeq(rpc.pipe, 1, k))
    /\ UNCHANGED RpcOnly

FramingNext ==
    \/ ChildWrite
    \/ StdoutChunk

FramingSpec == FramingInit /\ [][FramingNext]_vars

\* The event loop runs a timer callback that is due and the continuations of
\* settled promises; nothing is assumed about the subprocess.
RpcFairSpec ==
    RpcInit /\ [][RpcNext]_vars /\ WF_vars(Timeout) /\ WF_pc(RpcSettledStep) /\ WF_vars(Emit)

----------------------------------------------------------------------------
(* Concurrent invocations on the provider selector.  Each invocation is a  *)
(* process of its own running main; the processes share the selector file  *)
(* and the display host and nothing else.  writeFile opens the file with   *)
(* truncation and then writes the bytes at offset 0: the two are separate  *)
(* steps that other processes can see.                                     *)

\* Number of concurrent invocations.
MaxInvocations == 2

Procs == 1..MaxInvocations

\* Arguments of the invocations that change the selector and return.
SelectorArgvs == { <<"--toggle">>, <<"--provider", "claude">>, <<"--provider", "codex">> }

\* An invocation before its first step.  found, readAt, wrote and wroteAt
\* record what it read and wrote: the file readProvider saw, the number of
\* completed writes at that moment, the text it wrote last and the rank of
\* that write among all completed writes.
NewProc(av) ==
    [argv |-> av, pc |-> "start", args |-> parseArgs(<<>>), next |-> CODEX_PROVIDER,
     out |-> <<>>, found |-> NoFile, readAt |-> 0 - 1, wrote |-> "", wroteAt |-> 0]

\* writeFile, first half: open(path, O_WRONLY | O_CREAT | O_TRUNC).
OpenTruncated(file) == FileOf("")

\* writeFile, second half: write(fd, data) at offset 0; bytes another writer
\* put beyond the end of data stay.
WriteBytes(file, data) ==
    FileOf(data \o SubSeq(file.text, Len(data) + 1, Len(file.text)))

SelectorInit ==
    /\ argv = <<>>
    /\ providerFile \in ProviderFiles
    /\ codexFile = DefaultCodexFile
    /\ claudeFile = DefaultClaudeFile
    /\ now = Now0
    /\ pc = "start"
    /\ args = parseArgs(<<>>)
    /\ next = CODEX_PROVIDER
    /\ provider = CODEX_PROVIDER
    /\ auth = NoCodexAuth
    /\ requests = <<>>
    /\ writes = <<>>
    /\ signals = <<>>
    /\ oauthErr = ""
    /\ childPlan = NoPlan
    /\ rpc = RpcIdle
    /\ payload = NoPayload
    /\ out = <<>>
    /\ exitCode = -1
    /\ initial = [codex |-> codexFile, claude |-> claudeFile, provider |-> providerFile]
    /\ received = NoneReceived
    /\ call = NoCall
    /\ procs \in [Procs -> { NewProc(av) : av \in SelectorArgvs }]

\* What an invocation shares with nobody or leaves alone on this path.
SelectorFrame == <<argv, call, codexFile, claudeFile, now, pc, args, next, provider, auth, requests,
                   oauthErr, childPlan, rpc, payload, out, exitCode, initial, received>>

\* main of invocation p: parseArgs and the choice of branch.
ProcParseArgs(p) ==
    /\ procs[p].pc = "start"
    /\ procs' = [procs EXCEPT ![p].args = parseArgs(procs[p].argv),
                              ![p].pc = IF parseArgs(procs[p].argv).toggleProvider THEN "toggle_read"
                                        ELSE IF ~parseArgs(procs[p].argv).provider.null THEN "set_open"
                                        ELSE "select"]
    /\ UNCHANGED <<providerFile, writes, signals, SelectorFrame>>

\* main of invocation p, --toggle: readProvider and nextProvider.
ProcToggleRead(p) ==
    /\ procs[p].pc = "toggle_read"
    /\ procs' = [procs EXCEPT ![p].next = nextProvider(readProvider(providerFile)),
                              ![p].found = providerFile,
                              ![p].readAt = Len(writes),
                              ![p].pc = "toggle_open"]
    /\ UNCHANGED <<providerFile, writes, signals, SelectorFrame>>

\* writeProvider of invocation p: the file is opened and truncated.
ProcOpen(p) ==
    /\ procs[p].pc \in {"toggle_open", "set_open"}
    /\ providerFile' = OpenTruncated(providerFile)
    /\ procs' = [procs EXCEPT ![p].pc = IF procs[p].pc = "toggle_open" THEN "toggle_write"
                                        ELSE "set_write"]
    /\ UNCHANGED <<writes, signals, SelectorFrame>>

\* main of invocation p, --toggle: writeProvider(next) completes.
ProcToggleWrite(p) ==
    /\ procs[p].pc = "toggle_write"
    /\ providerFile' = WriteBytes(providerFile, procs[p].next \o "\n")
    /\ writes' = Append(writes, "provider")
    /\ procs' = [procs EXCEPT ![p].wrote = procs[p].next \o "\n",
                              ![p].wroteAt = Len(writes) + 1,
                              ![p].pc = IF procs[p].args.provider.null THEN "toggle_signal"
                                        ELSE "set_open"]
    /\ UNCHANGED <<signals, SelectorFrame>>

\* main of invocation p, --provider: writeProvider(args.provider) completes.
ProcSetWrite(p) ==
    /\ procs[p].pc = "set_write"
    /\ providerFile' = WriteBytes(providerFile, procs[p].args.provider.s \o "\n")
    /\ writes' = Append(writes, "provider")
    /\ procs' = [procs EXCEPT ![p].wrote = procs[p].args.provider.s \o "\n",
                              ![p].wroteAt = Len(writes) + 1,
                              ![p].pc = IF ~procs[p].args.toggleProvider THEN "set_signal"
                                        ELSE "select"]
    /\ UNCHANGED <<signals, SelectorFrame>>

\* main of invocation p: refreshWaybar, print the provider name, return.
ProcSignal(p) ==
    /\ procs[p].pc \in {"toggle_signal", "set_signal"}
    /\ \E outcome \in PkillOutcomes : signals' = Append(signals, outcome)
    /\ procs' = [procs EXCEPT ![p].out = Append(procs[p].out,
                                                TextLine(IF procs[p].pc = "toggle_signal"
                                                         THEN procs[p].next
                                                         ELSE procs[p].args.provider.s)),
                              ![p].pc = "done"]
    /\ UNCHANGED <<providerFile, writes, SelectorFrame>>

SelectorNext ==
    \/ \E p \in Procs : ProcParseArgs(p)
    \/ \E p \in Procs : ProcToggleRead(p)
    \/ \E p \in Procs : ProcOpen(p)
    \/ \E p \in Procs : ProcToggleWrite(p)
    \/ \E p \in Procs : ProcSetWrite(p)
    \/ \E p \in Procs : ProcSignal(p)

SelectorSpec == SelectorInit /\ [][SelectorNext]_vars

----------------------------------------------------------------------------
(* Properties *)

\* The usage-rendering path: no --toggle and no valid --provider.
RenderPath == ~parseArgs(argv).toggleProvider /\ parseArgs(argv).provider.null

Printed == out[1].payload

\* The RPC fallback was attempted and failed, with this message.
RpcFailed ==
    /\ rpc.spawned > 0
    /\ pc \in {"emit", "done"}
    /\ rpc.promise = "rejected" \/ ~rpcUsageParsed(rpc.result).ok

RpcFailure ==
    IF rpc.promise = "rejected" THEN rpc.error ELSE rpcUsageParsed(rpc.result).message

RpcSucceeded ==
    /\ rpc.spawned > 0
    /\ pc \in {"emit", "done"}
    /\ rpc.promise = "resolved"
    /\ rpcUsageParsed(rpc.result).ok

\* C1: on the usage-rendering path, whatever fails, nothing is printed before
\* the invocation ends, and when it has ended exactly one line has been
\* printed, that line is a JSON payload with the keys text, tooltip and
\* class, and the exit code is 0.
C1_OneJsonLineExitZero ==
    RenderPath =>
        /\ pc # "done" => out = <<>> /\ exitCode = -1
        /\ pc = "done" =>
            /\ Len(out) = 1
            /\ out[1].kind = "json"
            /\ {"text", "tooltip", "class"} \subseteq out[1].keys
            /\ exitCode = 0

\* C1 witness: the credential file was missing and the subprocess timed out,
\* and the invocation ended with one printed line.
C1_Witness ==
    /\ RenderPath
    /\ pc = "done"
    /\ initial.codex.kind = "absent"
    /\ rpc.error = "RPC timeout"
    /\ Len(out) = 1

\* C2: the subprocess is spawned at most once, only for the codex provider
\* and only after the primary path of the same invocation has failed (no
\* HTTP exchange is then still in progress); a payload produced by the
\* primary path means that no subprocess was spawned.
C2_FallbackOnlyAfterPrimaryFailure ==
    /\ rpc.spawned <= 1
    /\ rpc.spawned > 0 =>
        /\ provider = CODEX_PROVIDER
        /\ oauthErr # ""
        /\ pc \in {"rpc_wait", "emit", "done"}
    /\ (pc \in {"emit", "done"} /\ Contains(payload.tooltip, "(oauth)")) => rpc.spawned = 0
    /\ provider = CLAUDE_PROVIDER => rpc.spawned = 0

\* C2 witness: the subprocess runs after the usage endpoint answered 500.
C2_Witness ==
    /\ rpc.spawned = 1
    /\ pc = "rpc_wait"
    /\ oauthErr = "OAuth API 500"
    /\ rpc.os = "alive"

\* C3: when the codex primary path and the RPC fallback have both failed,
\* the payload has class "error" and its tooltip contains both messages.
C3_BothFailuresInTooltip ==
    (provider = CODEX_PROVIDER /\ RpcFailed) =>
        /\ payload.class = ClassStr("error")
        /\ Contains(payload.tooltip, oauthErr)
        /\ Contains(payload.tooltip, RpcFailure)
        /\ pc = "done" => Printed = payload

\* C3 witness: HTTP 500 on the primary path, then the subprocess exits with
\* a message on stderr; the error payload has been printed.
C3_Witness ==
    /\ pc = "done"
    /\ RpcFailed
    /\ oauthErr = "OAuth API 500"
    /\ rpc.error = "not logged in"
    /\ Len(out) = 1

\* C4: when the codex primary path has failed and the RPC fallback has
\* succeeded, the payload is a usage payload of source rpc, its class has no
\* "error", and the primary error text is nowhere in the payload.
C4_FallbackSuccessHidesPrimaryError ==
    (provider = CODEX_PROVIDER /\ RpcSucceeded) =>
        /\ Contains(payload.tooltip, "Provider: Codex (rpc)")
        /\ ~payload.percentage.null
        /\ ~InSeq("error", payload.class.items)
        /\ ~Contains(payload.tooltip, oauthErr)
        /\ ~Contains(payload.text, oauthErr)
        /\ pc = "done" => Printed = payload

\* C4 witness: HTTP 500, then the subprocess reports session 7% and weekly
\* 55%, and the payload has been printed.
C4_Witness ==
    /\ pc = "done"
    /\ RpcSucceeded
    /\ oauthErr = "OAuth API 500"
    /\ Printed.percentage = SomeNum(7, 0)
    /\ Contains(Printed.tooltip, "Weekly: 55%")


\* A string field that toStringValue would not accept: absent, not a string,
\* or blank.
NoString(value) == value.t # "str" \/ value.s = "" \/ value.s = " "

CodexCredentialMissing(file) ==
    \/ file.kind = "absent"
    \/ /\ file.kind = "record"
       /\ NoString(file.OPENAI_API_KEY)
       /\ ~file.tokens.present \/ NoString(file.tokens.access_token)

ClaudeCredentialMissing(file) ==
    \/ file.kind = "absent"
    \/ /\ file.kind = "record"
       /\ ~file.claudeAiOauth.present \/ NoString(file.claudeAiOauth.accessToken)

PrintedPayload == pc = "done" /\ Len(out) = 1 /\ out[1].kind = "json"

\* C5 as claimed: with the selected provider's credential missing, the
\* invocation ends in an error payload carrying the load error and its
\* "Run: ..." hint, for both providers.
C5_Original ==
    /\ (PrintedPayload /\ provider = CLAUDE_PROVIDER /\ ClaudeCredentialMissing(initial.claude)) =>
        /\ Printed.class = ClassStr("error")
        /\ Contains(Printed.tooltip, loadClaudeOAuth(initial.claude).message)
        /\ Contains(Printed.tooltip, "Run: ")
    /\ (PrintedPayload /\ provider = CODEX_PROVIDER /\ CodexCredentialMissing(initial.codex)) =>
        /\ Printed.class = ClassStr("error")
        /\ Contains(Printed.tooltip, loadCodexAuth(initial.codex).message)
        /\ Contains(Printed.tooltip, "Run: ")

\* C5 amended: a missing credential is fatal for the claude provider (error
\* payload with the load error and "Run: claude", no request, no
\* subprocess).  For the codex provider it fails the primary path only: no
\* request is issued, the subprocess is spawned, a usage payload can only
\* come from the RPC path, and when the fallback fails too the error tooltip
\* carries the load error, which has the hint "Run: codex login" unless the
\* tokens record itself is missing.
C5_MissingCredential ==
    /\ (PrintedPayload /\ provider = CLAUDE_PROVIDER /\ ClaudeCredentialMissing(initial.claude)) =>
        /\ Printed.class = ClassStr("error")
        /\ Contains(Printed.tooltip, loadClaudeOAuth(initial.claude).message)
        /\ Contains(loadClaudeOAuth(initial.claude).message, "Run: claude")
        /\ requests = <<>>
        /\ rpc.spawned = 0
    /\ (PrintedPayload /\ provider = CODEX_PROVIDER /\ CodexCredentialMissing(initial.codex)) =>
        /\ requests = <<>>
        /\ rpc.spawned = 1
        /\ oauthErr = loadCodexAuth(initial.codex).message
        /\ RpcFailed =>
            /\ Printed.class = ClassStr("error")
            /\ Contains(Printed.tooltip, loadCodexAuth(initial.codex).message)
        /\ ~RpcFailed => Contains(Printed.tooltip, "Provider: Codex (rpc)")
        /\ (initial.codex.kind = "absent" \/ initial.codex.tokens.present) =>
                Contains(oauthErr, "Run: codex login")

\* C5 witness: the claude credential holds no access token and the error
\* payload has been printed.
C5_Witness ==
    /\ PrintedPayload
    /\ provider = CLAUDE_PROVIDER
    /\ initial.claude.claudeAiOauth.present
    /\ initial.claude.claudeAiOauth.accessToken = Missing
    /\ Contains(Printed.tooltip, "Missing Claude access token. Run: claude")

RefreshAnswered == received.token.net # "none"

RefreshRejected == received.token.net = "ok" /\ ~ResponseOk(received.token)

RefreshThrew == received.token.net = "throw"

UsageUrl == IF provider = CLAUDE_PROVIDER THEN "claude-usage" ELSE "codex-usage"

UsageRequested == \E i \in 1..Len(requests) : requests[i].url = UsageUrl

\* The access token stored in the selected provider's file when the
\* invocation started.
OldToken ==
    IF provider = CLAUDE_PROVIDER THEN initial.claude.claudeAiOauth.accessToken.s
    ELSE initial.codex.tokens.access_token.s

WroteCredential == InSeq("codex", writes) \/ InSeq("claude", writes)

RefreshSucceeded == received.token.net = "ok" /\ ResponseOk(received.token)

\* The credential was loaded and maybeRefresh has returned or thrown.
MaybeRefreshFinished ==
    /\ auth # NoCodexAuth
    /\ pc \in {"claude_usage_wait", "codex_usage_wait", "rpc_wait", "emit", "done"}

\* The credential loadCodexAuth / loadClaudeOAuth handed to maybeRefresh.
GivenCredential ==
    IF provider = CLAUDE_PROVIDER THEN loadClaudeOAuth(initial.claude).value
    ELSE loadCodexAuth(initial.codex).value

C8_WriteBackPreservesOtherKeys ==
    /\ InSeq("codex", writes) =>
        /\ codexFile.kind = "record"
        /\ codexFile.OPENAI_API_KEY = initial.codex.OPENAI_API_KEY
        /\ codexFile.auth_mode = initial.codex.auth_mode
        /\ codexFile.tokens.present
        /\ codexFile.tokens.account_id = initial.codex.tokens.account_id
        /\ codexFile.tokens.id_token = initial.codex.tokens.id_token
    /\ InSeq("claude", writes) =>
        /\ claudeFile.kind = "record"
        /\ claudeFile.extra = initial.claude.extra
        /\ claudeFile.claudeAiOauth.present
        /\ claudeFile.claudeAiOauth.scopes = initial.claude.claudeAiOauth.scopes

\* C8 witness: the codex file was rewritten with new tokens and still has
\* its auth_mode and id_token.
C8_Witness ==
    /\ writes = <<"codex">>
    /\ codexFile.tokens.access_token = Str("at-new")
    /\ codexFile.tokens.refresh_token = Str("rt-new")
    /\ codexFile.auth_mode = Str("chatgpt")
    /\ codexFile.tokens.id_token = Str("idt")

\* C9: once the credential is loaded and maybeRefresh has reached its
\* decision, a claude refresh request has been sent exactly when the file has
\* a refresh token and a known expiry earlier than now + 5 min, and a codex
\* refresh request exactly when the file is in OAuth mode, has a refresh token
\* and its last refresh is absent, unreadable or more than 8 days ago.
C9_RefreshTrigger ==
    /\ (provider = CLAUDE_PROVIDER /\ auth # NoCodexAuth /\ pc # "claude_refresh") =>
        (InSeq(Request("claude-token", initial.claude.claudeAiOauth.refreshToken.s), requests)
            <=> /\ ~NoString(initial.claude.claudeAiOauth.refreshToken)
                /\ ~toNumber(initial.claude.claudeAiOauth.expiresAt).null
                /\ toNumber(initial.claude.claudeAiOauth.expiresAt).n
                        < now + (5 * 60 * 1000) \div MsPerTick)
    /\ (provider = CODEX_PROVIDER /\ auth # NoCodexAuth /\ pc # "codex_refresh") =>
        (InSeq(Request("codex-token", initial.codex.tokens.refresh_token.s), requests)
            <=> /\ NoString(initial.codex.OPENAI_API_KEY)
                /\ ~NoString(initial.codex.tokens.refresh_token)
                /\ \/ initial.codex.last_refresh.t # "str"
                   \/ initial.codex.last_refresh.s # "iso"
                   \/ now - initial.codex.last_refresh.n
                        > (8 * 24 * 60 * 60 * 1000) \div MsPerTick)

\* C9 witness: the codex file was last refreshed 8 days and one tick ago and
\* the refresh request is out.
C9_Witness ==
    /\ provider = CODEX_PROVIDER
    /\ pc = "codex_refresh_wait"
    /\ initial.codex.last_refresh = IsoStr(now - EightDays - 1)
    /\ requests = <<Request("codex-token", "rt-old")>>

UsageAnswered ==
    /\ received.usage.net = "ok"
    /\ ResponseOk(received.usage)
    /\ received.usage.body.kind = "record"

\* A number field that is absent or null.
NoNumber(value) == value.t \in {"missing", "other"}

CodexRequiredMissing(body) ==
    \/ ~body.rate_limit.present
    \/ ~body.rate_limit.primary_window.present
    \/ NoNumber(body.rate_limit.primary_window.used_percent)
    \/ ~body.rate_limit.secondary_window.present
    \/ NoNumber(body.rate_limit.secondary_window.used_percent)

ClaudeRequiredMissing(body) ==
    \/ ~body.five_hour.present
    \/ NoNumber(body.five_hour.utilization)
    \/ ~body.seven_day.present
    \/ NoNumber(body.seven_day.utilization)

\* C10: a usage response whose body lacks a window or its utilization
\* percentage makes the HTTP adapter fail (codex: the fallback is entered
\* with the parse error; claude: error payload); a payload produced by an
\* HTTP adapter always comes from a body with both windows and both
\* percentages, and its percentage is the rounded, clamped session value.
C10_MissingFieldFailsAdapter ==
    /\ (provider = CODEX_PROVIDER /\ UsageAnswered /\ CodexRequiredMissing(received.usage.body)) =>
        /\ rpc.spawned = 1
        /\ oauthErr = "OAuth payload missing rate-limit windows"
    /\ (provider = CLAUDE_PROVIDER /\ UsageAnswered /\ ClaudeRequiredMissing(received.usage.body)) =>
        /\ payload.class = ClassStr("error")
        /\ Contains(payload.tooltip, "Claude failed: Claude usage ")
        /\ Contains(payload.tooltip, " missing")
    /\ (provider = CODEX_PROVIDER /\ pc \in {"emit", "done"} /\ rpc.spawned = 0
            /\ received.usage.net # "none") =>
        /\ ~CodexRequiredMissing(received.usage.body)
        /\ payload.percentage.n =
              clamp(MathRound(toNumber(received.usage.body.rate_limit.primary_window.used_percent)),
                    0, 100)
    /\ (provider = CLAUDE_PROVIDER /\ pc \in {"emit", "done"}
            /\ payload.class # ClassStr("error")) =>
        /\ ~ClaudeRequiredMissing(received.usage.body)
        /\ payload.percentage.n =
              clamp(MathRound(toNumber(received.usage.body.five_hour.utilization)), 0, 100)

\* C10 witness: the codex usage body has its weekly window but no
\* used_percent in it, and the adapter has failed.
C10_Witness ==
    /\ provider = CODEX_PROVIDER
    /\ pc = "rpc_wait"
    /\ received.usage.body.rate_limit.secondary_window.present
    /\ received.usage.body.rate_limit.secondary_window.used_percent = Missing
    /\ oauthErr = "OAuth payload missing rate-limit windows"


\* A usage payload (not an error payload) is about to be, or has been, printed.
UsagePayload == pc \in {"emit", "done"} /\ ~payload.percentage.null

\* C11: in every usage payload, from whichever adapter, the percentage field
\* (the session utilization) is an integer in 0..100, the tooltip shows that
\* same session value, and the weekly utilization shown in the tooltip is an
\* integer in 0..100, also when upstream reported 120.5 or -5.
C11_PercentagesClamped ==
    UsagePayload =>
        /\ payload.percentage.f = 0
        /\ payload.percentage.n \in 0..100
        /\ Contains(payload.tooltip, "Session: " \o ToString(payload.percentage.n) \o "% (")
        /\ \E w \in 0..100 : Contains(payload.tooltip, "Weekly: " \o ToString(w) \o "% (")

\* C11 witness: the claude usage endpoint reported 120.5 and -5, and the
\* printed payload shows 100 and 0.
C11_Witness ==
    /\ pc = "done"
    /\ provider = CLAUDE_PROVIDER
    /\ UsageAnswered
    /\ received.usage.body.five_hour.utilization = Frac(120, 5)
    /\ received.usage.body.seven_day.utilization = Num(0 - 5)
    /\ Printed.percentage = SomeNum(100, 0)
    /\ Contains(Printed.tooltip, "Weekly: 0% (")


\* The line is a JSON object whose id reads as the number k.
IsResponse(line, k) ==
    /\ line # ""
    /\ JsonParseLine(line).valid
    /\ JsonParseLine(line).isRecord
    /\ toNumber(JsonParseLine(line).id) = SomeNum(k, 0)

\* How many of the lines handled so far are responses with id k.
ResponsesHandled(k) == Cardinality({i \in 1..Len(rpc.handled) : IsResponse(rpc.handled[i], k)})

Handshake == <<"initialized", "account/read#2", "account/rateLimits/read#3">>

\* C12: once the subprocess is spawned, the first message written to it is
\* the initialize request (id 1); every other message belongs to a group
\* initialized, account/read (id 2), rate-limits read (id 3), in that order,
\* and there is exactly one such group per handled response with id 1, so
\* nothing but initialize is written before such a response has arrived.
C12_HandshakeOrdering ==
    rpc.spawned > 0 =>
        /\ Len(rpc.sent) = 1 + 3 * ResponsesHandled(1)
        /\ rpc.sent[1] = "initialize#1"
        /\ \A j \in 1..ResponsesHandled(1) : SubSeq(rpc.sent, 3 * j - 1, 3 * j + 1) = Handshake

\* C12 witness: the response with id 1 has been handled and the three
\* messages have been written after initialize.
C12_Witness ==
    /\ pc = "rpc_wait"
    /\ rpc.handled = <<LineInit>>
    /\ rpc.sent = <<"initialize#1">> \o Handshake
    /\ rpc.promise = "pending"


\* The lines passed to handleLine in a step.
NewLines == SubSeq(rpc'.handled, Len(rpc.handled) + 1, Len(rpc'.handled))

\* Position in a sequence of lines of the first response with id 3, or 0.
FirstAnswer(lines) ==
    IF \E i \in 1..Len(lines) : IsResponse(lines[i], 3)
    THEN CHOOSE i \in 1..Len(lines) :
            /\ IsResponse(lines[i], 3)
            /\ \A j \in 1..(i - 1) : ~IsResponse(lines[j], 3)
    ELSE 0

\* C13: in every step that passes lines to the line handler while the
\* exchange is open, the first line with id 3 among them ends it: the promise
\* resolves with that line's result field and the subprocess is signalled (or
\* is gone already), or the promise rejects with "RPC missing result field"
\* when the line has no result; when none of the lines has id 3 (other ids,
\* no id, not JSON, not an object) the exchange stays open: nothing settles,
\* the timer stays armed and no signal is sent.
C13_OnlyIdThreeEndsExchange ==
    [][(rpc'.handled # rpc.handled /\ rpc.promise = "pending") =>
        LET k == FirstAnswer(NewLines)
            answer == JsonParseLine(NewLines[k])
        IN IF k = 0
           THEN /\ rpc'.promise = "pending"
                /\ ~rpc'.settled
                /\ rpc'.timer = rpc.timer
                /\ rpc'.termSent = rpc.termSent
           ELSE /\ rpc'.settled
                /\ ~rpc'.timer
                /\ rpc'.os # "alive" \/ rpc'.termSent
                /\ IF answer.result.present
                   THEN rpc'.promise = "resolved" /\ rpc'.result = answer.result
                   ELSE rpc'.promise = "rejected" /\ rpc'.error = "RPC missing result field"
      ]_vars

\* C13 witness: a notification, the id-1 response, a JSON array and the id-2
\* response were handled without effect, then the id-3 response resolved the
\* promise and the subprocess was signalled.
C13_Witness ==
    /\ pc = "rpc_wait"
    /\ rpc.handled = <<LineNotify, LineInit, LineArray, LineAccount, LineLimits>>
    /\ rpc.promise = "resolved"
    /\ rpc.result = JsonParseLine(LineLimits).result
    /\ rpc.termSent


\* A step in which the exit event is handled.
ExitHandled == rpc'.exitSeen /\ ~rpc.exitSeen

\* A step in which the timer fires.
TimerFired ==
    /\ rpc.timer /\ ~rpc'.timer
    /\ rpc'.handled = rpc.handled
    /\ rpc'.exitSeen = rpc.exitSeen
    /\ rpc'.errorSeen = rpc.errorSeen

\* The exit event handled while the exchange is open rejects the promise
\* with the captured stderr text or the exit-code message.
ExitRejects ==
    (ExitHandled /\ rpc.promise = "pending") =>
        /\ rpc'.promise = "rejected"
        /\ rpc'.error = IF Trim(rpc.stderrBuffer) # "" THEN Trim(rpc.stderrBuffer)
                        ELSE "RPC exited (" \o ToString(rpc.code) \o ")"

\* The timer firing while the exchange is open rejects the promise.
TimerRejects ==
    (TimerFired /\ rpc.promise = "pending") =>
        /\ rpc'.promise = "rejected"
        /\ rpc'.error = "RPC timeout"

\* A rejected promise yields the error payload with its message.
RejectedMeansError ==
    (rpc.promise = "rejected" /\ pc \in {"emit", "done"}) =>
        /\ payload.class = ClassStr("error")
        /\ payload.percentage.null
        /\ Contains(payload.tooltip, "RPC: " \o rpc.error)

\* C14: when the exit event is handled while the exchange is open (no id-3
\* response handled yet), the promise rejects with the trimmed stderr text
\* captured so far, or with "RPC exited (<code>)" when that text is empty;
\* when the timer fires while the exchange is open, the promise rejects with
\* "RPC timeout"; a rejected promise never yields a usage snapshot: the
\* payload is the error payload carrying that message.
C14_EarlyExitAndTimeoutFail ==
    [][ExitRejects /\ TimerRejects]_vars /\ []RejectedMeansError

\* C14 witness: the subprocess wrote one line that is not a response and
\* exited with code 0 and nothing on stderr; the exchange failed with the
\* exit-code message.
C14_Witness ==
    /\ pc = "rpc_wait"
    /\ rpc.exitSeen
    /\ rpc.handled = <<LineGarbage>>
    /\ rpc.promise = "rejected"
    /\ rpc.error = "RPC exited (0)"


\* fetchCodexUsageViaRpc has its result or its error.
AdapterFinished == rpc.spawned > 0 /\ rpc.promise \in {"resolved", "rejected"}

C17_RpcAlwaysFinishes ==
    /\ [](rpc.promise = "pending" => rpc.timer)
    /\ (pc = "rpc_wait") ~> AdapterFinished
    /\ (pc = "rpc_wait") ~> (pc = "done" /\ Len(out) = 1)

\* C17 witness: a subprocess that writes nothing and never exits; the
\* timeout ended the exchange and the line has been printed.
C17_Witness ==
    /\ pc = "done"
    /\ childPlan = ChildPlan(<<>>, "", FALSE, 0, FALSE)
    /\ rpc.written = 0
    /\ ~rpc.exitSeen
    /\ rpc.error = "RPC timeout"
    /\ Len(out) = 1


\* calcPacing has been applied to the arguments in call.
PacingCalled == call.fn \in {"calcPacing", "deriveCssClass"}

\* C18: for a usage percentage u in 0..100 and an elapsed percentage e in
\* 1..100, the icon of calcPacing is: "↑" iff u/e > 1.10; "↗" iff
\* 1.05 < u/e <= 1.10; "↓" iff u/e < 0.90; "↘" iff 0.90 <= u/e < 0.95;
\* "→" iff 0.95 <= u/e <= 1.05.
C18_PacingThresholds ==
    (PacingCalled /\ call.usagePct \in 0..100 /\ call.pacing.timeElapsedPct \in 1..100) =>
        LET u == call.usagePct
            e == call.pacing.timeElapsedPct
            icon == call.pacing.icon
        IN /\ icon = "↑" <=> 100 * u > 110 * e
           /\ icon = "↗" <=> (100 * u > 105 * e /\ 100 * u <= 110 * e)
           /\ icon = "↓" <=> 100 * u < 90 * e
           /\ icon = "↘" <=> (100 * u >= 90 * e /\ 100 * u < 95 * e)
           /\ icon = "→" <=> (100 * u >= 95 * e /\ 100 * u <= 105 * e)

\* C18 witness: 11% used with 10% of the window elapsed, ratio exactly 1.10,
\* is classified ahead, not strongly ahead.
C18_Witness ==
    /\ call.fn = "calcPacing"
    /\ call.usagePct = 11
    /\ call.pacing.timeElapsedPct = 10
    /\ call.pacing.icon = "↗"

\* C19: calcPacing with an unknown reset time or an unknown window length
\* returns icon "→", status "unknown pace", deviation 0 and elapsed 0,
\* whatever the usage percentage.
C19_UnknownPacing ==
    (PacingCalled /\ (call.resetAt.null \/ call.windowTicks.null)) =>
        call.pacing = Pacing("→", "unknown pace", 0, 0)

\* C19 witness: 100% used, the window length known and the reset time
\* unknown: the result is the unknown one.
C19_Witness ==
    /\ call.fn = "calcPacing"
    /\ call.usagePct = 100
    /\ call.resetAt.null
    /\ call.windowTicks = SomeNum(PacingWindow, 0)
    /\ call.pacing.status = "unknown pace"

\* The class the severity rule gives for a weekly percentage and the elapsed
\* percentage of the pacing result, the ratio taken as 0 when elapsed is 0.
SeverityRule(weeklyPct, elapsedPct) ==
    LET u == IF elapsedPct > 0 THEN weeklyPct ELSE 0
        e == IF elapsedPct > 0 THEN elapsedPct ELSE 1
    IN IF 100 * u > 110 * e \/ weeklyPct >= 90 THEN "critical"
       ELSE IF 100 * u > 105 * e \/ weeklyPct >= 75 THEN "warning"
       ELSE IF 100 * u >= 90 * e /\ 100 * u < 95 * e THEN "easy"
       ELSE ""

\* C20: the class returned by deriveCssClass for a weekly percentage and its
\* pacing result is the one of the severity rule, where the ratio is
\* weekly% / elapsed% and is 0 when elapsed% is 0 or unknown: critical iff
\* ratio > 1.10 or weekly% >= 90; else warning iff ratio > 1.05 or
\* weekly% >= 75; else easy iff 0.90 <= ratio < 0.95; else empty.
C20_SeverityClass ==
    call.fn = "deriveCssClass" =>
        call.cssClass = SeverityRule(call.usagePct, call.pacing.timeElapsedPct)


\* The bytes the subprocess has written to stdout so far.
RECURSIVE WrittenUpTo(_)
WrittenUpTo(k) == IF k = 0 THEN "" ELSE WrittenUpTo(k - 1) \o childPlan.lines[k] \o "\n"

\* The exchange after the same bytes arrived as one chunk.
Unsplit == onStdoutData(spawnRpc(RpcIdle, childPlan), WrittenUpTo(rpc.written))

\* C15: however the stdout bytes are split into read events, the lines
\* passed to the line handler are the first lines the unsplit stream gives
\* (so nothing is handled before its newline has arrived), and once every
\* byte has been read they are all of them, with the same unterminated rest
\* in the buffer.
C15_FramingIndependentOfChunks ==
    rpc.spawned > 0 =>
        /\ Len(rpc.handled) <= Len(Unsplit.handled)
        /\ \A i \in 1..Len(rpc.handled) : rpc.handled[i] = Unsplit.handled[i]
        /\ rpc.pipe = "" =>
            /\ rpc.handled = Unsplit.handled
            /\ rpc.stdoutBuffer = Unsplit.stdoutBuffer

\* C21: when the weekly percentage is below 75 and the weekly pace ratio
\* (weekly% / elapsed%, 0 when nothing of the window has elapsed) is not
\* above 1.05, deriveCssClass returns no usage class, so that the payload
\* class holds the provider class alone; this covers a pace slightly behind
\* (arrow "↘").
C21_NoUsageClass ==
    (/\ call.fn = "deriveCssClass"
     /\ call.usagePct < 75
     /\ \/ call.pacing.timeElapsedPct = 0
        \/ 100 * call.usagePct <= 105 * call.pacing.timeElapsedPct) =>
        /\ call.cssClass = ""
        /\ mergeClasses(<<call.cssClass, "provider-codex">>) = ClassArr(<<"provider-codex">>)

\* A sequence that lists nothing twice.
NoRepeat(xs) == \A i, j \in 1..Len(xs) : xs[i] = xs[j] => i = j

\* C22: every JSON payload the invocation prints, a usage payload or an
\* error payload, for either provider, has a class that lists the provider
\* class of the selected provider ("provider-codex" or "provider-claude"),
\* and lists no class twice.
C22_ProviderClassAlways ==
    (Len(out) = 1 /\ out[1].kind = "json") =>
        /\ InSeq("provider-" \o provider, Printed.class.items)
        /\ NoRepeat(Printed.class.items)

\* The whole minutes from the invocation to the reset time of call.
MinutesAhead == (call.resetAt.n * TicksPerSecond - now) \div TicksPerMinute

\* Two decimal digits.
TwoDigits(n) == ToString(n \div 10) \o ToString(n % 10)

\* C23: formatCountdown of a reset time that is not in the future is "now";
\* of a reset time d days, h hours and m minutes ahead (seconds dropped) it
\* is "{d}d{h}h" when that is 24 hours or more and "{h}h{mm}m", the minutes
\* in two digits, when it is less; 30 minutes ahead is "0h30m" and 25 hours
\* ahead is "1d1h".
C23_CountdownFormat ==
    (call.fn = "formatCountdown" /\ ~call.resetAt.null) =>
        LET d == MinutesAhead \div (24 * 60)
            h == (MinutesAhead % (24 * 60)) \div 60
            m == MinutesAhead % 60
        IN /\ IF call.resetAt.n * TicksPerSecond <= now THEN call.countdown = "now"
              ELSE IF MinutesAhead >= 24 * 60
                  THEN call.countdown = ToString(d) \o "d" \o ToString(h) \o "h"
              ELSE call.countdown = ToString(h) \o "h" \o TwoDigits(m) \o "m"
           /\ call.resetAt.n = Now0 + 30 * TicksPerMinute => call.countdown = "0h30m"
           /\ call.resetAt.n = Now0 + 25 * 60 * TicksPerMinute => call.countdown = "1d1h"

\* C23 witness: a reset exactly 24 hours ahead is shown as "1d0h".
C23_Witness ==
    /\ call.fn = "formatCountdown"
    /\ call.resetAt.n = Now0 + 24 * 60 * TicksPerMinute
    /\ call.countdown = "1d0h"

\* Invocation p ran --toggle alone.
TogglesOnly(p) == procs[p].argv = <<"--toggle">>

\* Invocation q read the selector after the write of invocation p was complete.
ReadAfterWriteOf(q, p) == procs[p].wroteAt >= 1 /\ procs[q].readAt >= procs[p].wroteAt

\* The file holds none of the two provider names, or does not exist.
Unreadable(file) == ~file.exists \/ Trim(file.text) \notin Providers

\* C24: when two --toggle invocations have run one after the other and no
\* other invocation has run, the selector reads as it read before the first
\* of them; an invocation with --toggle that found the selector file missing
\* or without a provider name in it takes codex as the current provider, so
\* it writes claude and prints claude.
C24_ToggleTwiceRestores ==
    /\ \A p, q \in Procs :
          (/\ p # q
           /\ TogglesOnly(p) /\ TogglesOnly(q)
           /\ procs[p].pc = "done" /\ procs[q].pc = "done"
           /\ ReadAfterWriteOf(q, p)
           /\ \A r \in Procs \ {p, q} : procs[r].pc = "start") =>
              readProvider(providerFile) = readProvider(procs[p].found)
    /\ \A p \in Procs :
          (TogglesOnly(p) /\ procs[p].pc = "done" /\ Unreadable(procs[p].found)) =>
              /\ procs[p].wrote = "claude\n"
              /\ procs[p].out = <<TextLine("claude")>>

\* C24 witness: the selector held claude, two toggles ran one after the
\* other, the first wrote codex and the second wrote claude back.
C24_Witness ==
    /\ TogglesOnly(1) /\ TogglesOnly(2)
    /\ procs[1].pc = "done" /\ procs[2].pc = "done"
    /\ procs[1].found = FileOf("claude\n")
    /\ procs[1].wrote = "codex\n"
    /\ ReadAfterWriteOf(2, 1)
    /\ providerFile = FileOf("claude\n")

\* The invocation never wrote the selector file.
SelectorNotWritten == \A i \in 1..Len(writes) : writes[i] # "provider"

\* C25: an invocation without --toggle and without --provider followed by a
\* valid name never changes the selector file, whatever it goes on to do:
\* no step of it alters the file, it does not write or create it, and when
\* the file is missing or holds no provider name it renders codex.
C25_RenderLeavesSelector ==
    /\ [][RenderPath => providerFile' = providerFile]_vars
    /\ [](RenderPath =>
            /\ SelectorNotWritten
            /\ (pc \notin {"start", "select"} /\ Unreadable(providerFile)) =>
                  provider = CODEX_PROVIDER)

\* C25 witness: a plain invocation with no selector file has printed its
\* JSON line for codex and the file still does not exist.
C25_Witness ==
    /\ RenderPath
    /\ pc = "done"
    /\ providerFile = NoFile
    /\ provider = CODEX_PROVIDER
    /\ Len(out) = 1 /\ out[1].kind = "json"

\* C26: an invocation that has written the selector file has, by the time it
\* ends, also sent the refresh signal to the display host, whichever of
\* --toggle and --provider it was given (one of them or both); and whatever
\* became of the signal, the invocation ends with exit code 0 and its one
\* line of output.
C26_EveryWriteSignals ==
    (pc = "done" /\ ~SelectorNotWritten) =>
        /\ Len(signals) >= 1
        /\ exitCode = 0
        /\ Len(out) = 1

\* The invocation loaded no credential, sent no HTTP request and spawned no
\* subprocess.
NothingFetched == auth = NoCodexAuth /\ requests = <<>> /\ rpc.spawned = 0

\* C27: an invocation given --toggle ends with the selector file holding the
\* provider other than the one it read at its start, with that provider's
\* name as its only output, printed as plain text, and without having
\* loaded a credential, called an endpoint or spawned the RPC subprocess.
C27_ToggleFlipsAndReturns ==
    (pc = "done" /\ parseArgs(argv).toggleProvider) =>
        /\ providerFile = writeProvider(nextProvider(readProvider(initial.provider)))
        /\ out = <<TextLine(nextProvider(readProvider(initial.provider)))>>
        /\ NothingFetched

\* C28: an invocation whose arguments hold --provider followed by a valid
\* provider name ends with the selector file holding that name, with that
\* name as its only output, printed as plain text, and without having
\* fetched usage.
C28_SetProviderAndReturns ==
    (pc = "done" /\ ~parseArgs(argv).provider.null) =>
        /\ providerFile = writeProvider(parseArgs(argv).provider.s)
        /\ out = <<TextLine(parseArgs(argv).provider.s)>>
        /\ NothingFetched

\* The arguments left when everything that is to be ignored is taken away:
\* the --toggle words and the pairs of --provider and a valid name.
RECURSIVE RecognizedFrom(_, _)
RecognizedFrom(av, i) ==
    IF i > Len(av) THEN <<>>
    ELSE IF av[i] = "--toggle" THEN <<av[i]>> \o RecognizedFrom(av, i + 1)
    ELSE IF av[i] = "--provider" /\ i + 1 <= Len(av) /\ av[i + 1] \in {"claude", "codex"}
         THEN <<av[i], av[i + 1]>> \o RecognizedFrom(av, i + 2)
    ELSE RecognizedFrom(av, i + 1)

Recognized(av) == RecognizedFrom(av, 1)

\* C29: parseArgs gives for an argument list what it gives for the list
\* without its unrecognized words and without every --provider that is not
\* followed by a valid name; a list made of such words only parses as the
\* empty list, so that neither selector write is requested; and a --toggle
\* anywhere in the list is honoured, also right after a --provider whose
\* value is missing or invalid.
C29_IgnoredArguments ==
    call.fn = "parseArgs" =>
        /\ call.args = parseArgs(Recognized(call.argv))
        /\ Recognized(call.argv) = <<>> => (~call.args.toggleProvider /\ call.args.provider.null)
        /\ call.args.toggleProvider <=> \E i \in 1..Len(call.argv) : call.argv[i] = "--toggle"
        /\ ~call.args.provider.null <=>
              \E i \in 1..(Len(call.argv) - 1) :
                  call.argv[i] = "--provider" /\ call.argv[i + 1] \in {"claude", "codex"}

\* C29 witness: --provider gemini --toggle parses as --toggle alone.
C29_Witness ==
    /\ call.fn = "parseArgs"
    /\ call.argv = <<"--provider", "gemini", "--toggle">>
    /\ call.args.toggleProvider
    /\ call.args.provider.null

\* The invocation whose write was the k-th to complete, and the selector
\* value in force after k completed writes.
WriterOf(k) == CHOOSE q \in Procs : procs[q].wroteAt = k

CommittedAfter(k) ==
    IF k = 0 THEN readProvider(initial.provider) ELSE Trim(procs[WriterOf(k)].wrote)

\* Once it holds a provider name the selector file holds one at every moment.
SelectorAlwaysValid ==
    (Len(writes) >= 1 \/ ~Unreadable(initial.provider)) => ~Unreadable(providerFile)

\* When every invocation has ended, the selector is what the last write wrote.
LastWriterWins ==
    ((\A p \in Procs : procs[p].pc = "done") /\ Len(writes) >= 1) =>
        readProvider(providerFile) = CommittedAfter(Len(writes))

\* Every read returned the selector value in force at that moment.
ReadsSeeCommitted ==
    \A p \in Procs :
        procs[p].readAt >= 0 =>
            readProvider(procs[p].found) = CommittedAfter(procs[p].readAt)

\* C30: under every interleaving of concurrent invocations that toggle or
\* set the provider, the selector file holds one of the two provider names
\* at every moment, its final value is the one written by the last write,
\* and every invocation reads a value that was in force (so that the only
\* anomaly is a lost update: two toggles that read the same value).
C30_LastWriterWins ==
    /\ SelectorAlwaysValid
    /\ LastWriterWins
    /\ ReadsSeeCommitted

\* calcPacing has been applied to a known reset time and window length.
PacingKnown ==
    /\ call.fn = "calcPacing"
    /\ ~call.resetAt.null /\ ~call.windowTicks.null /\ call.windowTicks.n > 0

\* Ticks from the start of the window of call to the invocation.
SinceStart == now - (call.resetAt.n * TicksPerSecond - call.windowTicks.n)

NearestWhole(a, b) == CHOOSE k \in (0 - 1)..(a + 1) : 2 * k * b - b <= 2 * a /\ 2 * a < 2 * k * b + b

\* C32: the status text of calcPacing is round((ratio - 1) * 100) followed
\* by "% ahead" when the ratio usage% / elapsed% is above 1.05,
\* round((1 - ratio) * 100) followed by "% under" when it is below 0.95
\* (usage 66 with elapsed 88 gives "25% under"), and holds no number when the
\* pace is on track ("on track") or unknown ("unknown pace").
C32_DeviationText ==
    call.fn = "calcPacing" =>
        LET u == call.usagePct
            e == call.pacing.timeElapsedPct
            status == call.pacing.status
        IN /\ ~PacingKnown => status = "unknown pace"
           /\ (PacingKnown /\ e >= 1) =>
                 /\ 100 * u > 105 * e =>
                       status = ToString(NearestWhole(100 * (u - e), e)) \o "% ahead"
                 /\ 100 * u < 95 * e =>
                       status = ToString(NearestWhole(100 * (e - u), e)) \o "% under"
                 /\ (100 * u >= 95 * e /\ 100 * u <= 105 * e) => status = "on track"
                 /\ (u = 66 /\ e = 88) => status = "25% under"

\* claudebar.ts's calcPacing has been applied inside or after the start of a
\* window with a known reset time.
BarKnown ==
    /\ call.fn = "claudebar.calcPacing"
    /\ ~call.resetAt.null
    /\ SinceStart > 0

\* C33: in claudebar.ts the pacing indicator is "→" exactly when usage is
\* within 5% of the expected pace (the ratio of the usage percentage to the
\* elapsed percentage is from 0.95 to 1.05), "↑" exactly when it is more than
\* 5% ahead (ratio above 1.05) and "↓" exactly when it is more than 5% under
\* (ratio below 0.95).
C33_BarIndicators ==
    BarKnown =>
        LET uw == call.usagePct * call.windowTicks.n
            s == SinceStart
        IN /\ call.bar.icon = "↑" <=> 100 * uw > 10500 * s
           /\ call.bar.icon = "↓" <=> 100 * uw < 9500 * s
           /\ call.bar.icon = "→" <=> (100 * uw >= 9500 * s /\ 100 * uw <= 10500 * s)

\* The access token stored in the selected provider's credential file now.
StoredAccessToken ==
    IF provider = CLAUDE_PROVIDER THEN claudeFile.claudeAiOauth.accessToken.s
    ELSE codexFile.tokens.access_token.s

\* The credential the selected provider's file holds now: for codex a
\* non-blank OPENAI_API_KEY, and the access token otherwise.
StoredCredential ==
    IF provider = CODEX_PROVIDER /\ codexFile.OPENAI_API_KEY.t = "str"
                                 /\ ~IsBlank(codexFile.OPENAI_API_KEY.s)
    THEN codexFile.OPENAI_API_KEY.s
    ELSE StoredAccessToken

\* The usage request is the last request of the invocation, the credential
\* was loaded before it, and a refresh request, if one was sent, was answered
\* before it.
LoadAndRefreshFirst ==
    \A i \in 1..Len(requests) :
        requests[i].url = UsageUrl =>
            /\ i = Len(requests)
            /\ auth = GivenCredential \/ WroteCredential
            /\ auth.accessToken # ""
            /\ i > 1 => (i = 2 /\ requests[1].url # UsageUrl /\ RefreshAnswered)
            /\ i = 1 => ~RefreshAnswered

\* The bearer token of every usage request sent.
SentTokens == { requests[i].token : i \in { j \in 1..Len(requests) : requests[j].url = UsageUrl } }

\* C34 as claimed: load and refresh are complete before the usage request
\* is issued, and the bearer token sent is the access token stored in the
\* provider's credential file: the new one after a refresh that wrote the
\* file, the loaded one otherwise.
C34_Original ==
    /\ LoadAndRefreshFirst
    /\ \A token \in SentTokens : token = StoredAccessToken

\* C34 amended: load and refresh are complete before the usage request is
\* issued, and the bearer token sent is the credential stored in the
\* provider's file at that moment, which for a codex file with a non-blank
\* OPENAI_API_KEY is that key (no refresh is attempted then) and otherwise
\* the access token.  After a refresh that wrote the file the token sent is
\* the one the answer supplied, or the loaded one when the answer supplied
\* none; without a write it is the loaded one.
C34_TokenSentIsStored ==
    /\ LoadAndRefreshFirst
    /\ \A token \in SentTokens :
        /\ token = StoredCredential
        /\ (WroteCredential /\ ~toStringValue(received.token.access_token).null) =>
                token = received.token.access_token.s
        /\ (~WroteCredential \/ toStringValue(received.token.access_token).null) =>
                token = GivenCredential.accessToken
        /\ (provider = CODEX_PROVIDER /\ ~toStringValue(initial.codex.OPENAI_API_KEY).null) =>
                ~RefreshAnswered /\ Len(requests) = 1

\* C34 witness: the codex refresh was answered with a new access token, the
\* file was written, and the usage request carries the token the file now
\* holds.
C34_Witness ==
    /\ provider = CODEX_PROVIDER
    /\ writes = <<"codex">>
    /\ requests = <<Request("codex-token", "rt-old"), Request("codex-usage", "at-new")>>
    /\ codexFile.tokens.access_token = Str("at-new")
    /\ initial.codex.tokens.access_token = Str("at-old")

\* The promise of the RPC exchange is settled.
RpcDecided == rpc.promise \in {"resolved", "rejected"}

\* The outcome of the exchange: the promise, its value and its error.
RpcOutcome == <<rpc.promise, rpc.result, rpc.error>>

\* A step taken after the exchange was decided leaves its outcome as it is.
OutcomeKept == RpcDecided => RpcOutcome' = RpcOutcome

\* A step taken after the exchange was decided writes nothing to the
\* subprocess.
NothingSentLate == RpcDecided => rpc'.sent = rpc.sent

\* C35: the RPC exchange is decided once, by the first of an id=3 response,
\* the exit of the subprocess, a spawn error or the timeout to be handled;
\* an event handled after that leaves the outcome unchanged, and no message
\* is written to the subprocess after the outcome is decided.
C35_DecidedOnce == [][OutcomeKept /\ NothingSentLate]_vars

\* The first half of C35 alone: the outcome, once decided, never changes.
OutcomeNeverChanges == [][OutcomeKept]_vars

\* The first id=3 response among the lines the subprocess writes, parsed.
PlannedAnswer == JsonParseLine(childPlan.lines[FirstAnswer(childPlan.lines)])

\* The subprocess has written all its lines, among them an id=3 response
\* with a result, and has exited by itself; the stdout data events and the
\* exit event have all been handled, and the timer did not end the exchange
\* first.
AnsweredThenExited ==
    /\ rpc.spawned > 0
    /\ childPlan.exits
    /\ FirstAnswer(childPlan.lines) > 0
    /\ PlannedAnswer.result.present
    /\ rpc.written = Len(childPlan.lines)
    /\ rpc.os = "dead"
    /\ rpc.code = childPlan.code
    /\ rpc.pipe = ""
    /\ rpc.exitSeen
    /\ rpc.error # "RPC timeout"

\* C36: when the subprocess writes a complete, valid id=3 response line with
\* a result field and then exits, the RPC adapter succeeds with that result,
\* in whichever order the stdout data event and the exit event are handled.
C36_AnswerSurvivesExit ==
    AnsweredThenExited =>
        /\ rpc.promise = "resolved"
        /\ rpc.result = PlannedAnswer.result

\* The same with the stdout data handled before the exit event.
AnswerKeptWhenDataFirst ==
    (AnsweredThenExited /\ rpc.error # "RPC exited (0)") =>
        /\ rpc.promise = "resolved"
        /\ rpc.result = PlannedAnswer.result

\* The codex token endpoint answered the refresh with a new access token.
NewAccessTokenSupplied ==
    /\ RefreshSucceeded
    /\ received.token.kind = "record"
    /\ ~toStringValue(received.token.access_token).null

\* An invocation starting now would send a codex refresh request.
NextInvocationRefreshes ==
    /\ loadCodexAuth(codexFile).ok
    /\ codexSendsRefresh(loadCodexAuth(codexFile).value, now)

\* C37: for the codex provider the credential file is rewritten and its
\* last_refresh advanced only when the successful answer of the token
\* endpoint supplied a new access token; a success answer without one leaves
\* the file and last_refresh as they were, so that the next invocation
\* attempts the refresh again.
C37_StampOnlyWithNewToken ==
    (provider = CODEX_PROVIDER /\ RefreshAnswered) =>
        /\ codexFile # initial.codex => NewAccessTokenSupplied
        /\ codexFile.last_refresh # initial.codex.last_refresh => NewAccessTokenSupplied
        /\ (RefreshSucceeded /\ ~NewAccessTokenSupplied) =>
                /\ codexFile = initial.codex
                /\ NextInvocationRefreshes

\* The same for every answer but a success answer that is a JSON object
\* without an access token.
StampOnlyAfterObjectAnswer ==
    (provider = CODEX_PROVIDER /\ RefreshAnswered
        /\ ~(RefreshSucceeded /\ received.token.kind = "record" /\ ~NewAccessTokenSupplied)) =>
        /\ codexFile # initial.codex => NewAccessTokenSupplied
        /\ ~NewAccessTokenSupplied => (codexFile = initial.codex /\ NextInvocationRefreshes)

====
